---- MODULE Spec2Model ----
(***************************************************************************)
(* TenantManager: the billing / payment lifecycle and the occupancy ledger *)
(* as implemented by PaymentFormScreen, PaymentViewScreen,                  *)
(* TenantRoomService, MeterReadingService and BillService.                  *)
(*                                                                         *)
(* The backend tables are the variables bill, meter_reading and            *)
(* tenant_room_mapping (a row's id is its index).  Each client session has *)
(* a navigation state (nav), the state of its PaymentViewScreen (view) and *)
(* of its PaymentFormScreen (form), and the position of a running          *)
(* addTenantToRoom call (occ).  A backend call either succeeds or fails;   *)
(* the outcome is chosen nondeterministically where the code awaits it.    *)
(* Amounts are integers; a text field holding digits is a sequence of      *)
(* length 0 (the empty string) or 1 (the number typed).                    *)
(* Three history variables carry no program state: ev names the handler   *)
(* that ran last, the session it ran in and how it ended; payments keeps,  *)
(* per bill, the amounts of the payments whose write succeeded; readingOf  *)
(* keeps, per bill, the id of the meter reading its capture appended (0:   *)
(* none).  The Rooms, Settings and Tenants screens have roomForm,          *)
(* settingScreen and tenantForm, over the tables room, setting and tenant  *)
(* and the blob paths in storage.                                          *)
(***************************************************************************)
EXTENDS Integers, Sequences, FiniteSets, TLC

VARIABLES bill, meter_reading, tenant_room_mapping, room, setting,
          nav, view, form, occ, ev, payments, roomForm, settingScreen,
          tenant, storage, tenantForm, readingOf, mrCall

vars == <<bill, meter_reading, tenant_room_mapping, room, setting,
          nav, view, form, occ, ev, payments, roomForm, settingScreen,
          tenant, storage, tenantForm, readingOf, mrCall>>

dbVars == <<bill, meter_reading, tenant_room_mapping, room, setting>>

\* the state of the Rooms, Settings and Tenants screens
adminVars == <<roomForm, settingScreen, tenant, storage, tenantForm, mrCall>>

----------------------------------------------------------------------------
(* Bounds of the model *)

MaxBills == 2
MaxMeter == 2
MaxAmount == 2
MaxPayments == 2
MaxMappings == 3

Sessions == {"s1", "s2", "s3"}
\* the authenticated user of a session: s1 and s2 are sessions of the same
\* owner, s3 is a session of another one
UserOf == [s \in Sessions |-> IF s = "s3" THEN "B" ELSE "A"]
Rooms == {1, 2}
Tenants == {1, 2}

Min(a, b) == IF a <= b THEN a ELSE b
Max(a, b) == IF a >= b THEN a ELSE b

----------------------------------------------------------------------------
(* Text fields *)

EmptyText == <<>>
DigitText(n) == <<n>>
\* Number(text) of a digits-only text; the screens map the empty text to 0
\* before they call Number
NumberOf(t) == IF Len(t) = 0 THEN 0 ELSE t[1]
\* /^\d+$/.test(text)
IsDigits(t) == Len(t) > 0

\* tokens of the free text kept in paid_amount_comment
Tok(k, m, a, p, q) == [k |-> k, method |-> m, amount |-> a, paid |-> p, pending |-> q]
NL == Tok("nl", "", 0, 0, 0)
NoteTok == Tok("note", "", 0, 0, 0)
IsSpace(t) == t.k = "nl"

RECURSIVE TrimLeft(_)
TrimLeft(s) == IF Len(s) > 0 /\ IsSpace(Head(s)) THEN TrimLeft(Tail(s)) ELSE s

RECURSIVE TrimRight(_)
TrimRight(s) ==
  IF Len(s) > 0 /\ IsSpace(s[Len(s)]) THEN TrimRight(SubSeq(s, 1, Len(s) - 1)) ELSE s

\* String.prototype.trim
Trim(s) == TrimRight(TrimLeft(s))

\* number of lines of a text
LineCount(s) ==
  IF Len(s) = 0 THEN 0 ELSE 1 + Cardinality({i \in 1..Len(s) : s[i].k = "nl"})

----------------------------------------------------------------------------
(* Rows and the service layer *)

NoBill ==
  [id |-> 0, tenant_id |-> 0, room_id |-> 0, rent |-> 0, water |-> 0,
   previous_month_meter_reading |-> 0, current_month_meter_reading |-> 0,
   electricity |-> 0, ad_hoc_amount |-> 0, total_amount |-> 0,
   paid_amount |-> 0, paid_amount_comment |-> <<>>, status |-> "UNPAID"]

NoRoom == [id |-> 0, rent |-> 0]

BillIds == 1..Len(bill)

\* BillService.fetchBillById: the row, or null
fetchBillById(billId) == IF billId \in BillIds THEN bill[billId] ELSE NoBill

\* BillService.createBill: paid_amount defaults to 0 and status to UNPAID
createBill(p) ==
  Append(bill,
    [id |-> Len(bill) + 1, tenant_id |-> p.tenantId, room_id |-> p.roomId,
     rent |-> p.rent, water |-> p.water,
     previous_month_meter_reading |-> p.previousMeter,
     current_month_meter_reading |-> p.currentMeter,
     electricity |-> p.electricity, ad_hoc_amount |-> p.adHocAmount,
     total_amount |-> p.totalAmount,
     paid_amount |-> 0, paid_amount_comment |-> <<>>, status |-> "UNPAID"])

\* BillService.updateBill: rewrites the row with the given id in place
updateBill(p) ==
  IF p.billId \in BillIds
  THEN [bill EXCEPT ![p.billId] =
          [@ EXCEPT !.tenant_id = p.tenantId, !.room_id = p.roomId,
                    !.rent = p.rent, !.water = p.water,
                    !.previous_month_meter_reading = p.previousMeter,
                    !.current_month_meter_reading = p.currentMeter,
                    !.electricity = p.electricity,
                    !.ad_hoc_amount = p.adHocAmount,
                    !.total_amount = p.totalAmount,
                    !.paid_amount = p.paidAmount, !.status = p.status]]
  ELSE bill

\* BillService.updateBillPayment: writes the three payment fields of the row
updateBillPayment(p) ==
  IF p.billId \in BillIds
  THEN [bill EXCEPT ![p.billId] =
          [@ EXCEPT !.paid_amount = p.paidAmount, !.status = p.status,
                    !.paid_amount_comment = p.paidAmountComment]]
  ELSE bill

\* BillService.fetchLatestBillForRoom: the most recently created bill of the room
fetchLatestBillForRoom(roomId) ==
  LET ids == {i \in BillIds : bill[i].room_id = roomId}
  IN IF ids = {} THEN NoBill ELSE bill[CHOOSE i \in ids : \A j \in ids : j <= i]

\* BillService.fetchLatestSetting
\* of the rows of the user, ordered by modified_at descending, the first;
\* a null column and a missing row read as 0
Null == -1
SettingsOf(userId) == {i \in 1..Len(setting) : setting[i].user_id = userId}
fetchLatestSetting(userId) ==
  IF SettingsOf(userId) = {}
  THEN [water |-> 0, electricity_unit |-> 0]
  ELSE LET i == CHOOSE j \in SettingsOf(userId) :
                  \A k \in SettingsOf(userId) : setting[k].modified_at <= setting[j].modified_at
       IN [water |-> IF setting[i].water = Null THEN 0 ELSE setting[i].water,
           electricity_unit |-> IF setting[i].electricity_unit = Null THEN 0
                                ELSE setting[i].electricity_unit]

NoReading == [id |-> 0, room_id |-> 0, tenant_id |-> 0, unit |-> 0, user_id |-> ""]

\* MeterReadingService.fetchLatestMeterReadingForRoom: newest row of the room, any tenant
fetchLatestMeterReadingForRoom(roomId) ==
  LET ids == {i \in 1..Len(meter_reading) : meter_reading[i].room_id = roomId}
  IN IF ids = {} THEN NoReading
     ELSE meter_reading[CHOOSE i \in ids : \A j \in ids : j <= i]

\* updateMeterReading writing the unit into every row
updateMeterReadingAll(id, unit) ==
  [i \in 1..Len(meter_reading) |-> [meter_reading[i] EXCEPT !.unit = unit]]

\* MeterReadingService.updateMeterReading: sets unit of the row with the id
updateMeterReading(id, unit) ==
  IF id \in 1..Len(meter_reading)
  THEN [meter_reading EXCEPT ![id].unit = unit]
  ELSE meter_reading

\* MeterReadingService.createMeterReading (a successful insert)
createMeterReading(p) ==
  Append(meter_reading,
    [id |-> Len(meter_reading) + 1, room_id |-> p.roomId,
     tenant_id |-> p.tenantId, unit |-> p.unit, user_id |-> p.userId])

\* rows of tenant_room_mapping with leaving_date = null
ActiveMappings(roomId) ==
  {i \in 1..Len(tenant_room_mapping) :
     /\ tenant_room_mapping[i].room_id = roomId
     /\ tenant_room_mapping[i].leaving_date = "null"}

\* TenantRoomService.fetchActiveTenantsForRooms: per room the tenant of an
\* active row (the last row returned wins), 0 when there is none
fetchActiveTenantsForRooms ==
  [r \in Rooms |->
     IF ActiveMappings(r) = {} THEN 0
     ELSE tenant_room_mapping[CHOOSE i \in ActiveMappings(r) :
                                \A j \in ActiveMappings(r) : j <= i].tenant_id]

----------------------------------------------------------------------------
(* Events: the handler that ran last and how it ended *)

EvA(op, res, s, arg) == [op |-> op, res |-> res, s |-> s, arg |-> arg]
Ev(op, res, s) == EvA(op, res, s, 0)

----------------------------------------------------------------------------
(* PaymentViewScreen *)

PaymentMethods == {"CASH", "UPI", "BANK", "CARD", "OTHER"}
MethodChoices == {"CASH", "UPI"}
NoteChoices == {<<>>, <<NL, NoteTok, NL, NoteTok>>}
AmountTexts == {EmptyText} \cup {DigitText(n) : n \in 0..MaxAmount}

NoPaymentReq ==
  [billId |-> 0, amount |-> 0, paidAmount |-> 0, status |-> "UNPAID",
   paidAmountComment |-> <<>>]

InitView ==
  [billId |-> 0, bill |-> NoBill, pc |-> "idle", dialogOpen |-> FALSE,
   paymentAmount |-> EmptyText, paymentMethod |-> "UPI", paymentNote |-> <<>>,
   req |-> NoPaymentReq]

total(v) == v.bill.total_amount
paid(v) == v.bill.paid_amount
pending(v) == Max(0, total(v) - paid(v))
canEditBill(v) == paid(v) <= 0
canRecordPayment(v) == pending(v) > 0

amountNum(v) == IF Len(v.paymentAmount) > 0 THEN NumberOf(v.paymentAmount) ELSE 0
isAmountValid(v) == amountNum(v) > 0 /\ amountNum(v) <= pending(v)
nextPaid(v) == Min(total(v), paid(v) + (IF isAmountValid(v) THEN amountNum(v) ELSE 0))
nextPending(v) == Max(0, total(v) - nextPaid(v))
nextStatus(v) ==
  IF nextPaid(v) <= 0 THEN "UNPAID"
  ELSE IF nextPending(v) <= 0 THEN "PAID" ELSE "PARTIAL"

\* appendPaymentComment(existing, line)
appendPaymentComment(existing, line) ==
  LET base == Trim(existing)
  IN IF Len(base) > 0 THEN base \o <<NL>> \o line ELSE line

\* the log line built by savePayment
paymentLine(v) ==
  LET note == Trim(v.paymentNote)
  IN <<Tok("recv", v.paymentMethod, amountNum(v), 0, 0)>>
     \o note
     \o <<Tok("bal", "", 0, nextPaid(v), nextPending(v))>>

\* Math.round(x / d) for x >= 0
RoundDiv(x, d) == (2 * x + d) \div (2 * d)

\* the amounts the 25%, 50% and Full buttons of the dialog fill in
QuickButtons == {"25%", "50%", "Full"}
quickAmount(v, k) ==
  CASE k = "25%" -> Max(1, RoundDiv(pending(v), 4))
    [] k = "50%" -> Max(1, RoundDiv(pending(v), 2))
    [] k = "Full" -> pending(v)

\* what the screens of a session show: the screen on top of the stack and
\* the modal alert in front of it
Idle(s) == nav[s].alert = "none"
OnView(s) == nav[s].screen = "view" /\ Idle(s)
OnForm(s) == nav[s].screen = "form" /\ Idle(s)
OnList(s) == nav[s].screen = "list" /\ Idle(s)

\* PaymentScreen: a bill of the list is pressed; PaymentViewScreen mounts and
\* its focus effect starts load()
OpenView(s, b) ==
  /\ OnList(s)
  /\ b \in BillIds
  /\ nav' = [nav EXCEPT ![s].screen = "view"]
  /\ view' = [view EXCEPT ![s] = [InitView EXCEPT !.billId = b, !.pc = "loading"]]
  /\ ev' = Ev("input", "ok", s)
  /\ UNCHANGED <<readingOf, adminVars, dbVars, form, occ, payments>>

\* PaymentViewScreen.load: on success the screen holds the fetched row; on a
\* failed fetch it alerts and keeps the bill it held
ViewLoad(s, ok) ==
  /\ nav[s].screen = "view"
  /\ view[s].pc = "loading"
  /\ IF ok
     THEN /\ view' = [view EXCEPT ![s].bill = fetchBillById(view[s].billId),
                                  ![s].pc = "idle"]
          /\ nav' = nav
     ELSE /\ view' = [view EXCEPT ![s].pc = "idle"]
          /\ nav' = [nav EXCEPT ![s].alert = "Load Failed"]
  /\ ev' = Ev("ViewLoad", IF ok THEN "ok" ELSE "failed", s)
  /\ UNCHANGED <<readingOf, adminVars, dbVars, form, occ, payments>>

\* the screen is usable: not loading, a bill is shown
ViewReady(s) == OnView(s) /\ view[s].pc = "idle" /\ view[s].bill.id # 0

openPaymentDialog(s) ==
  /\ ViewReady(s)
  /\ ~view[s].dialogOpen
  /\ canRecordPayment(view[s])
  /\ Len(payments[view[s].bill.id]) < MaxPayments
  /\ view' = [view EXCEPT ![s].dialogOpen = TRUE, ![s].paymentAmount = EmptyText,
                          ![s].paymentMethod = "UPI", ![s].paymentNote = <<>>]
  /\ ev' = Ev("input", "ok", s)
  /\ UNCHANGED <<readingOf, adminVars, dbVars, nav, form, occ, payments>>

\* the amount field is typed into
setPaymentAmount(s, t) ==
  /\ ViewReady(s)
  /\ view[s].dialogOpen
  /\ t \in AmountTexts
  /\ t # view[s].paymentAmount
  /\ view' = [view EXCEPT ![s].paymentAmount = t]
  /\ ev' = Ev("input", "ok", s)
  /\ UNCHANGED <<readingOf, adminVars, dbVars, nav, form, occ, payments>>

\* one of the 25% / 50% / Full buttons, enabled while pending > 0
pressQuickAmount(s, k) ==
  /\ ViewReady(s)
  /\ view[s].dialogOpen
  /\ pending(view[s]) > 0
  /\ DigitText(quickAmount(view[s], k)) # view[s].paymentAmount
  /\ view' = [view EXCEPT ![s].paymentAmount = DigitText(quickAmount(view[s], k))]
  /\ ev' = Ev("input", "ok", s)
  /\ UNCHANGED <<readingOf, adminVars, dbVars, nav, form, occ, payments>>

setPaymentMethod(s, m) ==
  /\ ViewReady(s)
  /\ view[s].dialogOpen
  /\ m \in MethodChoices /\ m # view[s].paymentMethod
  /\ view' = [view EXCEPT ![s].paymentMethod = m]
  /\ ev' = Ev("input", "ok", s)
  /\ UNCHANGED <<readingOf, adminVars, dbVars, nav, form, occ, payments>>

setPaymentNote(s, n) ==
  /\ ViewReady(s)
  /\ view[s].dialogOpen
  /\ n \in NoteChoices /\ n # view[s].paymentNote
  /\ view' = [view EXCEPT ![s].paymentNote = n]
  /\ ev' = Ev("input", "ok", s)
  /\ UNCHANGED <<readingOf, adminVars, dbVars, nav, form, occ, payments>>

\* Cancel or a tap outside the dialog.  The three fields of the dialog are
\* read only while it is open and openPaymentDialog sets them anew, so the
\* model empties them when the dialog closes
closePaymentDialog(s) ==
  /\ ViewReady(s)
  /\ view[s].dialogOpen
  /\ view' = [view EXCEPT ![s].dialogOpen = FALSE, ![s].paymentAmount = EmptyText,
                          ![s].paymentMethod = "UPI", ![s].paymentNote = <<>>]
  /\ ev' = Ev("input", "ok", s)
  /\ UNCHANGED <<readingOf, adminVars, dbVars, nav, form, occ, payments>>

\* the request of savePayment addressed to another bill
paymentRequestOther(v) ==
  [billId |-> IF v.bill.id = 1 THEN 2 ELSE 1, amount |-> amountNum(v),
   paidAmount |-> nextPaid(v), status |-> nextStatus(v),
   paidAmountComment |-> appendPaymentComment(v.bill.paid_amount_comment, paymentLine(v))]

\* the request savePayment hands to updateBillPayment
paymentRequest(v) ==
  [billId |-> v.bill.id, amount |-> amountNum(v),
   paidAmount |-> nextPaid(v), status |-> nextStatus(v),
   paidAmountComment |-> appendPaymentComment(v.bill.paid_amount_comment, paymentLine(v))]

\* savePayment up to its first await: returns when the amount is not valid,
\* otherwise builds the request from the bill the screen holds
savePayment(s) ==
  /\ ViewReady(s)
  /\ view[s].dialogOpen
  /\ IF ~isAmountValid(view[s])
     THEN /\ ev' = Ev("savePayment", "rejected", s)
          /\ UNCHANGED view
     ELSE /\ view' = [view EXCEPT ![s].pc = "pay_write",
                                  ![s].req = paymentRequest(view[s])]
          /\ ev' = Ev("savePayment", "accepted", s)
  /\ UNCHANGED <<readingOf, adminVars, dbVars, nav, form, occ, payments>>

\* savePayment, the awaited updateBillPayment: on success the dialog closes
\* and load() runs; on failure 'Save Failed' is alerted
PayWrite(s, ok) ==
  /\ nav[s].screen = "view"
  /\ view[s].pc = "pay_write"
  /\ IF ok
     THEN /\ bill' = updateBillPayment(view[s].req)
          /\ payments' = [payments EXCEPT ![view[s].req.billId] =
                            Append(@, view[s].req.amount)]
          /\ view' = [view EXCEPT ![s].pc = "loading", ![s].dialogOpen = FALSE,
                                  ![s].paymentAmount = EmptyText,
                                  ![s].paymentMethod = "UPI", ![s].paymentNote = <<>>,
                                  ![s].req = NoPaymentReq]
          /\ nav' = nav
     ELSE /\ view' = [view EXCEPT ![s].pc = "idle", ![s].req = NoPaymentReq]
          /\ nav' = [nav EXCEPT ![s].alert = "Save Failed"]
          /\ UNCHANGED <<readingOf, adminVars, bill, payments>>
  /\ ev' = Ev("PayWrite", IF ok THEN "ok" ELSE "failed", s)
  /\ UNCHANGED <<readingOf, adminVars, meter_reading, tenant_room_mapping, room, setting, form, occ>>

\* the back button of PaymentViewScreen
ViewBack(s) ==
  /\ OnView(s)
  /\ view[s].pc = "idle"
  /\ ~view[s].dialogOpen
  /\ nav' = [nav EXCEPT ![s].screen = "list"]
  /\ view' = [view EXCEPT ![s] = InitView]
  /\ ev' = Ev("input", "ok", s)
  /\ UNCHANGED <<readingOf, adminVars, dbVars, form, occ, payments>>

----------------------------------------------------------------------------
(* PaymentFormScreen *)

MeterTexts == {EmptyText} \cup {DigitText(n) : n \in 0..MaxMeter}
AdHocTexts == {EmptyText, DigitText(1)}

NoBillReq ==
  [billId |-> 0, tenantId |-> 0, roomId |-> 0, rent |-> 0, water |-> 0,
   previousMeter |-> 0, currentMeter |-> 0, electricity |-> 0,
   totalAmount |-> 0, adHocAmount |-> 0, paidAmount |-> 0, status |-> "UNPAID"]

InitForm ==
  [isEdit |-> FALSE, billId |-> 0, pc |-> "idle", editingBill |-> NoBill,
   assignments |-> {}, settings |-> [water |-> 0, electricity_unit |-> 0],
   selectedRoom |-> NoRoom, selectedTenant |-> 0,
   previousMeter |-> 0, currentMeter |-> EmptyText, adHocAmount |-> EmptyText,
   fetching |-> {}, req |-> NoBillReq]

\* the values the screen derives from its state on every render
rent(f) == f.selectedRoom.rent
water(f) == f.settings.water
currentMeterNum(f) == IF Len(f.currentMeter) > 0 THEN NumberOf(f.currentMeter) ELSE 0
\* diffUnits without the clamp at 0
diffUnitsUnclamped(f) == currentMeterNum(f) - f.previousMeter
diffUnits(f) == Max(0, currentMeterNum(f) - f.previousMeter)
electricity(f) == diffUnits(f) * f.settings.electricity_unit
adHoc(f) == IF Len(f.adHocAmount) > 0 THEN NumberOf(f.adHocAmount) ELSE 0
totalAmount(f) == rent(f) + water(f) + electricity(f) + adHoc(f)

\* validate() without the comparison with the previous reading
validateNoOrder(f) ==
  (IF f.selectedRoom.id = 0 \/ f.selectedTenant = 0 THEN {"pair"} ELSE {})
  \cup (IF ~IsDigits(f.currentMeter) THEN {"currentMeter"} ELSE {})
  \cup (IF Len(f.adHocAmount) > 0 /\ ~IsDigits(f.adHocAmount) THEN {"adHocAmount"} ELSE {})

\* validate(): the set of fields in error
validate(f) ==
  (IF f.selectedRoom.id = 0 \/ f.selectedTenant = 0 THEN {"pair"} ELSE {})
  \cup (IF ~IsDigits(f.currentMeter) THEN {"currentMeter"} ELSE {})
  \cup (IF Len(f.adHocAmount) > 0 /\ ~IsDigits(f.adHocAmount) THEN {"adHocAmount"} ELSE {})
  \cup (IF /\ f.selectedRoom.id # 0
           /\ Len(f.currentMeter) > 0
           /\ NumberOf(f.currentMeter) < f.previousMeter
        THEN {"currentMeter"} ELSE {})

\* the gate of load() left open
alreadyPaidNever(b) == FALSE

\* load(), edit mode: the gate on the fetched bill
alreadyPaid(b) == b.paid_amount > 0

\* the occupied rooms with their tenants, as load() builds them
assignmentPairs ==
  {<<r, fetchActiveTenantsForRooms[r]>> : r \in {x \in Rooms : fetchActiveTenantsForRooms[x] # 0}}

\* PaymentScreen: the add button; PaymentFormScreen mounts in create mode
OpenFormCreate(s) ==
  /\ OnList(s)
  /\ Len(bill) < MaxBills
  /\ nav' = [nav EXCEPT ![s].screen = "form"]
  /\ form' = [form EXCEPT ![s] = [InitForm EXCEPT !.pc = "loading"]]
  /\ ev' = Ev("input", "ok", s)
  /\ UNCHANGED <<readingOf, adminVars, dbVars, view, occ, payments>>

\* PaymentViewScreen: the pencil button, shown while canEditBill
EditBill(s) ==
  /\ ViewReady(s)
  /\ ~view[s].dialogOpen
  /\ canEditBill(view[s])
  /\ nav' = [nav EXCEPT ![s].screen = "form"]
  /\ form' = [form EXCEPT ![s] =
                [InitForm EXCEPT !.isEdit = TRUE, !.billId = view[s].bill.id,
                                 !.pc = "loading"]]
  /\ ev' = Ev("input", "ok", s)
  /\ UNCHANGED <<readingOf, adminVars, dbVars, view, occ, payments>>

\* PaymentFormScreen.load.  out = "fetch": one of the first fetches fails;
\* out = "active": fetchActiveTenantsForRooms fails; out = "ok": all succeed
FormLoad(s, out) ==
  /\ nav[s].screen = "form"
  /\ form[s].pc = "loading"
  /\ LET f == form[s]
         b == fetchBillById(f.billId)
         loaded == [f EXCEPT !.pc = "idle", !.settings = fetchLatestSetting(UserOf[s]),
                             !.assignments = assignmentPairs]
     IN CASE out = "fetch" ->
               /\ form' = [form EXCEPT ![s].pc = "idle"]
               /\ nav' = [nav EXCEPT ![s].alert = "Load Failed"]
               /\ ev' = Ev("FormLoad", "failed", s)
          [] out = "active" ->
               /\ form' = [form EXCEPT ![s].pc = "idle",
                                       ![s].settings = fetchLatestSetting(UserOf[s])]
               /\ nav' = [nav EXCEPT ![s].alert = "Load Failed"]
               /\ ev' = Ev("FormLoad", "failed", s)
          [] out = "ok" /\ ~f.isEdit ->
               /\ form' = [form EXCEPT ![s] = [loaded EXCEPT !.editingBill = NoBill]]
               /\ nav' = nav
               /\ ev' = Ev("FormLoad", "ok", s)
          [] out = "ok" /\ f.isEdit /\ b.id = 0 ->
               /\ form' = [form EXCEPT ![s] = loaded]
               /\ nav' = [nav EXCEPT ![s].alert = "Load Failed"]
               /\ ev' = Ev("FormLoad", "failed", s)
          [] out = "ok" /\ f.isEdit /\ b.id # 0 /\ alreadyPaid(b) ->
               /\ form' = [form EXCEPT ![s] = loaded]
               /\ nav' = [nav EXCEPT ![s].alert = "Not allowed"]
               /\ ev' = Ev("FormLoad", "Not allowed", s)
          [] out = "ok" /\ f.isEdit /\ b.id # 0 /\ ~alreadyPaid(b) ->
               /\ form' = [form EXCEPT ![s] =
                    [loaded EXCEPT
                       !.editingBill = b,
                       !.selectedRoom = [id |-> b.room_id, rent |-> room[b.room_id].rent],
                       !.selectedTenant = b.tenant_id,
                       !.previousMeter = b.previous_month_meter_reading,
                       !.currentMeter = DigitText(b.current_month_meter_reading),
                       !.adHocAmount = DigitText(b.ad_hoc_amount)]]
               /\ nav' = nav
               /\ ev' = Ev("FormLoad", "ok", s)
  /\ UNCHANGED <<readingOf, adminVars, dbVars, view, occ, payments>>

FormReady(s) == OnForm(s) /\ form[s].pc = "idle"

\* selectPair up to its await: the pair is selected and the latest reading of
\* the room is requested
selectPair(s, pair) ==
  /\ FormReady(s)
  /\ form[s].selectedRoom.id = 0 \/ form[s].selectedTenant = 0
  /\ pair \in form[s].assignments
  /\ form' = [form EXCEPT
                ![s].selectedRoom = [id |-> pair[1], rent |-> room[pair[1]].rent],
                ![s].selectedTenant = pair[2],
                ![s].fetching = @ \cup {pair[1]}]
  /\ ev' = Ev("input", "ok", s)
  /\ UNCHANGED <<readingOf, adminVars, dbVars, nav, view, occ, payments>>

\* selectPair, the awaited fetchLatestMeterReadingForRoom: the previous
\* reading becomes the unit of the latest row, 0 when there is none or the
\* fetch fails
selectPairDone(s, r, ok) ==
  /\ nav[s].screen = "form"
  /\ r \in form[s].fetching
  /\ form' = [form EXCEPT
                ![s].fetching = @ \ {r},
                ![s].previousMeter =
                   IF ok THEN fetchLatestMeterReadingForRoom(r).unit ELSE 0]
  /\ ev' = Ev("selectPairDone", IF ok THEN "ok" ELSE "failed", s)
  /\ UNCHANGED <<readingOf, adminVars, dbVars, nav, view, occ, payments>>

\* the close button of the selected tile, shown in create mode only
clearPair(s) ==
  /\ FormReady(s)
  /\ ~form[s].isEdit
  /\ form[s].selectedRoom.id # 0 /\ form[s].selectedTenant # 0
  /\ form' = [form EXCEPT ![s].selectedRoom = NoRoom, ![s].selectedTenant = 0,
                          ![s].previousMeter = 0, ![s].currentMeter = EmptyText]
  /\ ev' = Ev("input", "ok", s)
  /\ UNCHANGED <<readingOf, adminVars, dbVars, nav, view, occ, payments>>

setCurrentMeter(s, t) ==
  /\ FormReady(s)
  /\ t \in MeterTexts /\ t # form[s].currentMeter
  /\ form' = [form EXCEPT ![s].currentMeter = t]
  /\ ev' = Ev("input", "ok", s)
  /\ UNCHANGED <<readingOf, adminVars, dbVars, nav, view, occ, payments>>

setAdHocAmount(s, t) ==
  /\ FormReady(s)
  /\ t \in AdHocTexts /\ t # form[s].adHocAmount
  /\ form' = [form EXCEPT ![s].adHocAmount = t]
  /\ ev' = Ev("input", "ok", s)
  /\ UNCHANGED <<readingOf, adminVars, dbVars, nav, view, occ, payments>>

\* the payload of save() taking the typed reading as the previous one too
billRequestPrevTyped(f) ==
  [billId |-> f.billId,
   tenantId |-> f.selectedTenant, roomId |-> f.selectedRoom.id,
   rent |-> rent(f), water |-> water(f),
   previousMeter |-> NumberOf(f.currentMeter),
   currentMeter |-> NumberOf(f.currentMeter),
   electricity |-> electricity(f), totalAmount |-> totalAmount(f),
   adHocAmount |-> adHoc(f),
   paidAmount |-> f.editingBill.paid_amount,
   status |-> f.editingBill.status]

\* the request save() hands to updateBill or createBill
billRequest(f) ==
  [billId |-> f.billId,
   tenantId |-> f.selectedTenant, roomId |-> f.selectedRoom.id,
   rent |-> rent(f), water |-> water(f),
   previousMeter |-> f.previousMeter, currentMeter |-> NumberOf(f.currentMeter),
   electricity |-> electricity(f), totalAmount |-> totalAmount(f),
   adHocAmount |-> adHoc(f),
   paidAmount |-> f.editingBill.paid_amount,
   status |-> f.editingBill.status]

\* save() up to its first await: returns when validate() finds an error
save(s) ==
  /\ FormReady(s)
  /\ IF validate(form[s]) # {}
     THEN /\ ev' = Ev("save", "rejected", s)
          /\ UNCHANGED form
     ELSE /\ form[s].isEdit \/ Len(bill) < MaxBills
          /\ form' = [form EXCEPT ![s].pc = "write", ![s].req = billRequest(form[s])]
          /\ ev' = Ev("save", "accepted", s)
  /\ UNCHANGED <<readingOf, adminVars, dbVars, nav, view, occ, payments>>

\* save() going on to createMeterReading after a failed createBill
FormWriteBillThenReading(s, ok) ==
  /\ nav[s].screen = "form"
  /\ form[s].pc = "write"
  /\ IF ok
     THEN /\ bill' = IF form[s].isEdit THEN updateBill(form[s].req)
                     ELSE createBill(form[s].req)
          /\ payments' = IF form[s].isEdit THEN payments ELSE Append(payments, <<>>)
          /\ readingOf' = IF form[s].isEdit THEN readingOf ELSE Append(readingOf, 0)
          /\ form' = [form EXCEPT ![s].pc = IF form[s].isEdit THEN "sync" ELSE "reading"]
          /\ nav' = nav
     ELSE /\ form' = [form EXCEPT ![s].pc = IF form[s].isEdit THEN "idle" ELSE "reading"]
          /\ nav' = IF form[s].isEdit THEN [nav EXCEPT ![s].alert = "Save Failed"] ELSE nav
          /\ UNCHANGED <<readingOf, adminVars, bill, payments>>
  /\ ev' = Ev("FormWriteBill", IF ok THEN "ok" ELSE "failed", s)
  /\ UNCHANGED <<adminVars, meter_reading, tenant_room_mapping, room, setting, view, occ>>

\* save(), the awaited updateBill (edit) or createBill (create)
FormWriteBill(s, ok) ==
  /\ nav[s].screen = "form"
  /\ form[s].pc = "write"
  /\ IF ok
     THEN /\ bill' = IF form[s].isEdit THEN updateBill(form[s].req)
                     ELSE createBill(form[s].req)
          /\ payments' = IF form[s].isEdit THEN payments ELSE Append(payments, <<>>)
          /\ readingOf' = IF form[s].isEdit THEN readingOf ELSE Append(readingOf, 0)
          /\ form' = [form EXCEPT ![s].pc = IF form[s].isEdit THEN "sync" ELSE "reading"]
          /\ nav' = nav
     ELSE /\ form' = [form EXCEPT ![s].pc = "idle", ![s].req = NoBillReq]
          /\ nav' = [nav EXCEPT ![s].alert = "Save Failed"]
          /\ UNCHANGED <<readingOf, adminVars, bill, payments>>
  /\ ev' = Ev("FormWriteBill", IF ok THEN "ok" ELSE "failed", s)
  /\ UNCHANGED <<adminVars, meter_reading, tenant_room_mapping, room, setting, view, occ>>

\* save(), edit mode, the best-effort meter sync: when the edited bill is the
\* latest bill of its room, the latest reading of the room gets the new unit;
\* a failure of any of its calls is swallowed
FormSync(s, ok) ==
  /\ nav[s].screen = "form"
  /\ form[s].pc = "sync"
  /\ LET q == form[s].req
         latestBill == fetchLatestBillForRoom(q.roomId)
         latestMr == fetchLatestMeterReadingForRoom(q.roomId)
     IN meter_reading' =
          IF ok /\ latestBill.id = q.billId /\ latestMr.id # 0
          THEN updateMeterReading(latestMr.id, q.currentMeter)
          ELSE meter_reading
  /\ form' = [form EXCEPT ![s].pc = "idle", ![s].req = NoBillReq]
  /\ nav' = [nav EXCEPT ![s].alert = "Updated"]
  /\ ev' = Ev("FormSync", IF ok THEN "ok" ELSE "failed", s)
  /\ UNCHANGED <<readingOf, adminVars, bill, tenant_room_mapping, room, setting, view, occ, payments>>

\* save() compensating a failed createMeterReading by deleting the bill
FormWriteReadingUndo(s, ok) ==
  /\ nav[s].screen = "form"
  /\ form[s].pc = "reading"
  /\ LET q == form[s].req
     IN meter_reading' =
          IF ok
          THEN createMeterReading([roomId |-> q.roomId, tenantId |-> q.tenantId,
                                   unit |-> q.currentMeter, userId |-> UserOf[s]])
          ELSE meter_reading
  /\ bill' = IF ok THEN bill ELSE SubSeq(bill, 1, Len(bill) - 1)
  /\ payments' = IF ok THEN payments ELSE SubSeq(payments, 1, Len(payments) - 1)
  /\ readingOf' = IF ok THEN [readingOf EXCEPT ![Len(bill)] = Len(meter_reading) + 1]
                  ELSE SubSeq(readingOf, 1, Len(readingOf) - 1)
  /\ form' = [form EXCEPT ![s].pc = "idle", ![s].req = NoBillReq]
  /\ nav' = [nav EXCEPT ![s].alert = IF ok THEN "Saved" ELSE "Save Failed"]
  /\ ev' = Ev("FormWriteReading", IF ok THEN "ok" ELSE "failed", s)
  /\ UNCHANGED <<adminVars, tenant_room_mapping, room, setting, view, occ>>

\* save(), create mode, the awaited createMeterReading
FormWriteReading(s, ok) ==
  /\ nav[s].screen = "form"
  /\ form[s].pc = "reading"
  /\ LET q == form[s].req
     IN meter_reading' =
          IF ok
          THEN createMeterReading([roomId |-> q.roomId, tenantId |-> q.tenantId,
                                   unit |-> q.currentMeter, userId |-> UserOf[s]])
          ELSE meter_reading
  /\ form' = [form EXCEPT ![s].pc = "idle", ![s].req = NoBillReq]
  /\ nav' = [nav EXCEPT ![s].alert = IF ok THEN "Saved" ELSE "Save Failed"]
  /\ ev' = Ev("FormWriteReading", IF ok THEN "ok" ELSE "failed", s)
  /\ readingOf' = IF ok THEN [readingOf EXCEPT ![Len(bill)] = Len(meter_reading) + 1]
                  ELSE readingOf
  /\ UNCHANGED <<adminVars, bill, tenant_room_mapping, room, setting, view, occ, payments>>

\* navigation.goBack() from the form: the form unmounts; under an edit form
\* lies the PaymentViewScreen, whose focus effect runs load() again
goBack(s) ==
  /\ form' = [form EXCEPT ![s] = InitForm]
  /\ IF form[s].isEdit
     THEN /\ nav' = [nav EXCEPT ![s] = [screen |-> "view", alert |-> "none"]]
          /\ view' = [view EXCEPT ![s].pc = "loading"]
     ELSE /\ nav' = [nav EXCEPT ![s] = [screen |-> "list", alert |-> "none"]]
          /\ view' = view

\* the OK button of an alert: 'Not allowed', 'Saved' and 'Updated' go back,
\* the failure alerts only close
AlertOK(s) ==
  /\ nav[s].alert # "none"
  /\ IF nav[s].alert \in {"Not allowed", "Saved", "Updated"}
     THEN goBack(s)
     ELSE /\ nav' = [nav EXCEPT ![s].alert = "none"]
          /\ UNCHANGED <<readingOf, adminVars, view, form>>
  /\ ev' = Ev("AlertOK", nav[s].alert, s)
  /\ UNCHANGED <<readingOf, adminVars, dbVars, occ, payments>>

\* the back button of PaymentFormScreen
FormBack(s) ==
  /\ FormReady(s)
  /\ goBack(s)
  /\ ev' = Ev("input", "ok", s)
  /\ UNCHANGED <<readingOf, adminVars, dbVars, occ, payments>>

----------------------------------------------------------------------------
(* TenantRoomService: the occupancy ledger *)

NoOcc == [pc |-> "idle", tenant_id |-> 0, room_id |-> 0]

\* RoomFormScreen as mounted: the mode and room id of the route, the rent
\* field, and the save calls that were started and have not yet settled
NoRoomForm == [mode |-> "add", roomId |-> 0, rent |-> EmptyText, inflight |-> 0]

\* the tenant rows with the documents they point at, and the blob paths
\* user/tenant/key of the bucket
DocKeys == <<"profile_photo", "pan_card", "adhar_card", "agreement">>
InitTenant == <<[id |-> 1, user_id |-> "A", name |-> <<"n1">>, docs |-> {"profile_photo"}]>>
InitStorage == {<<"A", 1, "profile_photo">>}

\* a createMeterReading call: where it stands, the insert attempts it has
\* made, the rows they inserted and the message of the first error
NoMrCall == [pc |-> "idle", roomId |-> 0, attempts |-> 0, inserted |-> 0,
             firstError |-> "none"]

\* TenantFormScreen as mounted, with the locals of a running saveTenant
NoTenantForm ==
  [pc |-> "idle", tenantId |-> 0, name |-> EmptyText, files |-> {}, urls |-> {},
   todo |-> {}, uploadedPaths |-> {}]

\* SettingScreen as mounted: recordId null (0), empty fields
NoSettingScreen ==
  [pc |-> "idle", recordId |-> 0, propertyName |-> EmptyText, water |-> EmptyText,
   electricity |-> EmptyText,
   req |-> [recordId |-> 0, water |-> 0, electricity_unit |-> 0]]

\* fetchActiveTenantForRoom: the id of the active row of the room; null (0)
\* when there is none and also when the query ends in an error, which it
\* does when it fails (err) and when maybeSingle() finds several rows
fetchActiveTenantForRoom(roomId, err) ==
  IF err \/ Cardinality(ActiveMappings(roomId)) # 1
  THEN 0
  ELSE CHOOSE i \in ActiveMappings(roomId) : TRUE

\* addTenantToRoom up to the insert.  out = "throw": getCurrentUserId or
\* fetchTenantsMap throws; out = "error": the lookup of the active row ends
\* in an error; out = "ok": the lookup answers
addTenantToRoom(s, t, r, out) ==
  /\ occ[s].pc = "idle"
  /\ IF out = "throw"
     THEN /\ occ' = occ
          /\ ev' = EvA("addTenantToRoom", "failed", s, r)
     ELSE IF fetchActiveTenantForRoom(r, out = "error") # 0
          THEN /\ occ' = occ
               /\ ev' = EvA("addTenantToRoom", "Room already occupied", s, r)
          ELSE /\ Len(tenant_room_mapping) < MaxMappings
               /\ occ' = [occ EXCEPT ![s] = [pc |-> "insert", tenant_id |-> t, room_id |-> r]]
               /\ ev' = EvA("addTenantToRoom",
                            IF out = "error" THEN "lookup error" ELSE "checked", s, r)
  /\ UNCHANGED <<readingOf, adminVars, dbVars, nav, view, form, payments>>

\* the insert of addTenantToRoom looking at the room again
AssignInsertChecked(s, ok) ==
  /\ occ[s].pc = "insert"
  /\ tenant_room_mapping' =
       IF ok /\ ActiveMappings(occ[s].room_id) = {}
       THEN Append(tenant_room_mapping,
              [id |-> Len(tenant_room_mapping) + 1, tenant_id |-> occ[s].tenant_id,
               room_id |-> occ[s].room_id, joining_date |-> "d1",
               leaving_date |-> "null"])
       ELSE tenant_room_mapping
  /\ occ' = [occ EXCEPT ![s] = NoOcc]
  /\ ev' = Ev("AssignInsert", IF ok THEN "ok" ELSE "failed", s)
  /\ UNCHANGED <<readingOf, adminVars, bill, meter_reading, room, setting, nav, view, form, payments>>

\* addTenantToRoom, the awaited insert of the mapping row
AssignInsert(s, ok) ==
  /\ occ[s].pc = "insert"
  /\ tenant_room_mapping' =
       IF ok
       THEN Append(tenant_room_mapping,
              [id |-> Len(tenant_room_mapping) + 1, tenant_id |-> occ[s].tenant_id,
               room_id |-> occ[s].room_id, joining_date |-> "d1",
               leaving_date |-> "null"])
       ELSE tenant_room_mapping
  /\ occ' = [occ EXCEPT ![s] = NoOcc]
  /\ ev' = Ev("AssignInsert", IF ok THEN "ok" ELSE "failed", s)
  /\ UNCHANGED <<readingOf, adminVars, bill, meter_reading, room, setting, nav, view, form, payments>>

\* vacateRoom reopening a mapping that is already closed
vacateRoomToggle(s, m, ok) ==
  /\ occ[s].pc = "idle"
  /\ m \in 1..Len(tenant_room_mapping)
  /\ tenant_room_mapping' =
       IF ok THEN [tenant_room_mapping EXCEPT ![m].leaving_date =
                                           IF @ = "null" THEN "date" ELSE "null"]
       ELSE tenant_room_mapping
  /\ ev' = Ev("vacateRoom", IF ok THEN "ok" ELSE "failed", s)
  /\ UNCHANGED <<readingOf, adminVars, bill, meter_reading, room, setting, nav, view, form, occ, payments>>

\* vacateRoom(mappingId): leaving_date of the row becomes now
vacateRoom(s, m, ok) ==
  /\ occ[s].pc = "idle"
  /\ m \in 1..Len(tenant_room_mapping)
  /\ tenant_room_mapping' =
       IF ok THEN [tenant_room_mapping EXCEPT ![m].leaving_date = "date"]
       ELSE tenant_room_mapping
  /\ ev' = Ev("vacateRoom", IF ok THEN "ok" ELSE "failed", s)
  /\ UNCHANGED <<readingOf, adminVars, bill, meter_reading, room, setting, nav, view, form, occ, payments>>

\* updateJoiningDate writing leaving_date = null along with the date
updateJoiningDateReopen(s, m, d, ok) ==
  /\ occ[s].pc = "idle"
  /\ m \in 1..Len(tenant_room_mapping)
  /\ tenant_room_mapping' =
       IF ok THEN [tenant_room_mapping EXCEPT ![m].joining_date = d,
                                              ![m].leaving_date = "null"]
       ELSE tenant_room_mapping
  /\ ev' = Ev("updateJoiningDate", IF ok THEN "ok" ELSE "failed", s)
  /\ UNCHANGED <<readingOf, adminVars, bill, meter_reading, room, setting, nav, view, form, occ, payments>>

\* updateJoiningDate(mappingId, joining_date): joining_date of the row is
\* rewritten, nothing else
updateJoiningDate(s, m, d, ok) ==
  /\ occ[s].pc = "idle"
  /\ m \in 1..Len(tenant_room_mapping)
  /\ tenant_room_mapping' =
       IF ok THEN [tenant_room_mapping EXCEPT ![m].joining_date = d]
       ELSE tenant_room_mapping
  /\ ev' = Ev("updateJoiningDate", IF ok THEN "ok" ELSE "failed", s)
  /\ UNCHANGED <<readingOf, adminVars, bill, meter_reading, room, setting, nav, view, form, occ, payments>>

----------------------------------------------------------------------------
(* Specifications *)

RoomRent == [r \in Rooms |-> [rent |-> r]]
InitSetting == <<[id |-> 1, user_id |-> "A", water |-> 1, electricity_unit |-> 2,
                 modified_at |-> 1]>>

Init ==
  /\ bill = <<>>
  /\ meter_reading = <<>>
  /\ tenant_room_mapping = <<>>
  /\ room = RoomRent
  /\ setting = InitSetting
  /\ nav = [s \in Sessions |-> [screen |-> "list", alert |-> "none"]]
  /\ view = [s \in Sessions |-> InitView]
  /\ form = [s \in Sessions |-> InitForm]
  /\ occ = [s \in Sessions |-> NoOcc]
  /\ roomForm = [s \in Sessions |-> NoRoomForm]
  /\ settingScreen = [s \in Sessions |-> NoSettingScreen]
  /\ tenant = InitTenant
  /\ storage = InitStorage
  /\ tenantForm = [s \in Sessions |-> NoTenantForm]
  /\ mrCall = [s \in Sessions |-> NoMrCall]
  /\ ev = Ev("init", "ok", "s1")
  /\ payments = <<>>
  /\ readingOf = <<>>

PaymentStep(s) ==
  \/ \E b \in 1..MaxBills : OpenView(s, b)
  \/ \E ok \in BOOLEAN : ViewLoad(s, ok)
  \/ openPaymentDialog(s)
  \/ \E t \in AmountTexts : setPaymentAmount(s, t)
  \/ \E k \in QuickButtons : pressQuickAmount(s, k)
  \/ \E m \in MethodChoices : setPaymentMethod(s, m)
  \/ \E n \in NoteChoices : setPaymentNote(s, n)
  \/ closePaymentDialog(s)
  \/ savePayment(s)
  \/ \E ok \in BOOLEAN : PayWrite(s, ok)
  \/ ViewBack(s)

FormStep(s) ==
  \/ OpenFormCreate(s)
  \/ EditBill(s)
  \/ \E out \in {"fetch", "active", "ok"} : FormLoad(s, out)
  \/ \E pair \in Rooms \X Tenants : selectPair(s, pair)
  \/ \E r \in Rooms, ok \in BOOLEAN : selectPairDone(s, r, ok)
  \/ clearPair(s)
  \/ \E t \in MeterTexts : setCurrentMeter(s, t)
  \/ \E t \in AdHocTexts : setAdHocAmount(s, t)
  \/ save(s)
  \/ \E ok \in BOOLEAN : FormWriteBill(s, ok)
  \/ \E ok \in BOOLEAN : FormSync(s, ok)
  \/ \E ok \in BOOLEAN : FormWriteReading(s, ok)
  \/ AlertOK(s)
  \/ FormBack(s)

OccupancyStep(s) ==
  \/ \E t \in Tenants, r \in Rooms, out \in {"throw", "error", "ok"} :
        addTenantToRoom(s, t, r, out)
  \/ \E ok \in BOOLEAN : AssignInsert(s, ok)
  \/ \E m \in 1..MaxMappings, ok \in BOOLEAN : vacateRoom(s, m, ok)

\* the bottom tabs: the Payments stack stays mounted while another tab is
\* shown; here the Rooms tab is opened from the capture form
TabToRooms(s) ==
  /\ FormReady(s)
  /\ nav' = [nav EXCEPT ![s].screen = "rooms"]
  /\ ev' = Ev("input", "ok", s)
  /\ UNCHANGED <<readingOf, adminVars, dbVars, view, form, occ, payments>>

\* RoomFormScreen: Mark Vacant, confirmed, on the active mapping of a room
RoomVacate(s, m, ok) ==
  /\ nav[s].screen = "rooms"
  /\ m \in 1..Len(tenant_room_mapping)
  /\ tenant_room_mapping[m].leaving_date = "null"
  /\ vacateRoom(s, m, ok)

\* back to the Payments tab: the form gains focus and its focus effect runs
\* load() again
TabToPayments(s) ==
  /\ nav[s].screen = "rooms"
  /\ nav' = [nav EXCEPT ![s].screen = "form"]
  /\ form' = [form EXCEPT ![s].pc = "loading"]
  /\ ev' = Ev("input", "ok", s)
  /\ UNCHANGED <<readingOf, adminVars, dbVars, view, occ, payments>>

\* the billing lifecycle of one session over a fixed occupancy (room 1 is
\* occupied by tenant 1, room 2 is vacant) and with one bill of room 1 in
\* the past
InitOccupied ==
  <<[id |-> 1, tenant_id |-> 1, room_id |-> 1, joining_date |-> "d1",
     leaving_date |-> "null"]>>

\* an earlier bill of room 1 (one unit at the rate of 2), paid in full with
\* one UPI payment, and the meter reading captured with it
PaidBill ==
  [id |-> 1, tenant_id |-> 1, room_id |-> 1, rent |-> 1, water |-> 1,
   previous_month_meter_reading |-> 0, current_month_meter_reading |-> 1,
   electricity |-> 2, ad_hoc_amount |-> 0, total_amount |-> 4,
   paid_amount |-> 4,
   paid_amount_comment |-> <<Tok("recv", "UPI", 4, 0, 0), Tok("bal", "", 0, 4, 0)>>,
   status |-> "PAID"]

InitBilling ==
  /\ bill = <<PaidBill>>
  /\ payments = << <<4>> >>
  /\ readingOf = <<1>>
  /\ meter_reading = <<[id |-> 1, room_id |-> 1, tenant_id |-> 1, unit |-> 1,
                        user_id |-> "A"]>>
  /\ tenant_room_mapping = InitOccupied
  /\ room = RoomRent
  /\ setting = InitSetting
  /\ nav = [s \in Sessions |-> [screen |-> "list", alert |-> "none"]]
  /\ view = [s \in Sessions |-> InitView]
  /\ form = [s \in Sessions |-> InitForm]
  /\ occ = [s \in Sessions |-> NoOcc]
  /\ roomForm = [s \in Sessions |-> NoRoomForm]
  /\ settingScreen = [s \in Sessions |-> NoSettingScreen]
  /\ tenant = InitTenant
  /\ storage = InitStorage
  /\ tenantForm = [s \in Sessions |-> NoTenantForm]
  /\ mrCall = [s \in Sessions |-> NoMrCall]
  /\ ev = Ev("init", "ok", "s1")

Next == \E s \in {"s1"} : PaymentStep(s) \/ FormStep(s)

Spec == InitBilling /\ [][Next]_vars

\* the occupancy ledger of one session
NextOccupancy ==
  \E s \in {"s1"} :
    \/ OccupancyStep(s)
    \/ \E m \in 1..MaxMappings, d \in {"d1", "d2"}, ok \in BOOLEAN :
          updateJoiningDate(s, m, d, ok)

SpecOccupancy == Init /\ [][NextOccupancy]_vars

----------------------------------------------------------------------------
(* Properties of the payment lifecycle *)

\* C1: for any sequence of accepted record_payment calls on a bill, the
\* persisted paid_amount never decreases from one state to the next and
\* never exceeds the total_amount of the bill
C1_PaidMonotoneBounded ==
  [][(ev'.op = "PayWrite" /\ ev'.res = "ok") =>
       \A i \in BillIds :
         /\ bill'[i].paid_amount >= bill[i].paid_amount
         /\ bill'[i].paid_amount <= bill'[i].total_amount]_vars

\* C2: for every bill with total_amount > 0, in every reachable state, the
\* persisted status is UNPAID iff paid_amount = 0, PARTIAL iff
\* 0 < paid_amount < total_amount and PAID iff paid_amount >= total_amount;
\* a newly created bill has paid_amount = 0 and status UNPAID
C2_StatusDerived ==
  /\ [](\A i \in BillIds :
          bill[i].total_amount > 0 =>
            bill[i].status =
              (IF bill[i].paid_amount = 0 THEN "UNPAID"
               ELSE IF bill[i].paid_amount < bill[i].total_amount THEN "PARTIAL"
               ELSE "PAID"))
  /\ [][Len(bill') > Len(bill) =>
          /\ bill'[Len(bill')].paid_amount = 0
          /\ bill'[Len(bill')].status = "UNPAID"]_vars

\* C3: record_payment with amount <= 0 or amount > pending, where pending is
\* total_amount - paid_amount of the bill, is rejected: no backend write is
\* issued and paid_amount, status and paid_amount_comment are unchanged
C3_InvalidAmountRejected ==
  [][\A s \in Sessions :
       (ev'.op = "savePayment" /\ ev'.s = s /\ view[s].bill.id \in BillIds) =>
         LET amount == IF view[s].paymentAmount = EmptyText THEN 0
                       ELSE NumberOf(view[s].paymentAmount)
             b == bill[view[s].bill.id]
         IN (amount <= 0 \/ amount > b.total_amount - b.paid_amount) =>
              /\ ev'.res = "rejected"
              /\ view'[s].pc # "pay_write"
              /\ bill' = bill]_vars

\* C4: PAID is terminal: once the status of a bill is PAID no operation moves
\* it to another status or changes its paid_amount, and every further
\* record_payment call on that bill is rejected
C4_PaidTerminal ==
  [][/\ \A i \in BillIds :
          bill[i].status = "PAID" =>
            /\ bill'[i].status = "PAID"
            /\ bill'[i].paid_amount = bill[i].paid_amount
     /\ \A s \in Sessions :
          (/\ ev'.op = "savePayment" /\ ev'.s = s
           /\ view[s].bill.id \in BillIds
           /\ bill[view[s].bill.id].status = "PAID") => ev'.res = "rejected"]_vars

C9_BillComputation ==
  /\ [](/\ \A s \in Sessions :
             LET f == form[s]
                 curr == IF f.currentMeter = EmptyText THEN 0 ELSE f.currentMeter[1]
                 units == IF curr < f.previousMeter THEN 0 ELSE curr - f.previousMeter
                 extra == IF f.adHocAmount = EmptyText THEN 0 ELSE f.adHocAmount[1]
             IN /\ diffUnits(f) = units
                /\ units >= 0
                /\ electricity(f) = units * f.settings.electricity_unit
                /\ totalAmount(f) = f.selectedRoom.rent + f.settings.water
                                    + units * f.settings.electricity_unit + extra
                /\ f.pc \in {"write", "sync", "reading"} =>
                     /\ f.req.currentMeter >= f.req.previousMeter
                     /\ f.req.electricity =
                          (f.req.currentMeter - f.req.previousMeter)
                          * f.settings.electricity_unit
                     /\ f.req.totalAmount = f.req.rent + f.req.water
                          + f.req.electricity + f.req.adHocAmount
        /\ \A i \in BillIds :
             LET b == bill[i]
                 units == b.current_month_meter_reading - b.previous_month_meter_reading
             IN /\ units >= 0
                /\ b.electricity = units * fetchLatestSetting("A").electricity_unit
                /\ b.total_amount = b.rent + b.water
                                    + units * fetchLatestSetting("A").electricity_unit + b.ad_hoc_amount)
  /\ [][\A s \in Sessions :
          (ev'.op = "FormWriteBill" /\ ev'.res = "ok" /\ ev'.s = s) =>
            LET q == form[s].req
                b == bill'[IF form[s].isEdit THEN q.billId ELSE Len(bill')]
            IN /\ b.rent = q.rent /\ b.water = q.water
               /\ b.previous_month_meter_reading = q.previousMeter
               /\ b.current_month_meter_reading = q.currentMeter
               /\ b.electricity = q.electricity
               /\ b.ad_hoc_amount = q.adHocAmount
               /\ b.total_amount = q.totalAmount]_vars

\* C9 witness: a bill with units > 0 and an ad-hoc amount was captured, and
\* the form now holds a current reading below the previous one
C9_Witness ==
  /\ Len(bill) >= 2
  /\ bill[2].current_month_meter_reading > bill[2].previous_month_meter_reading
  /\ bill[2].ad_hoc_amount > 0
  /\ nav["s1"].screen = "form"
  /\ form["s1"].selectedRoom.id # 0
  /\ form["s1"].currentMeter # EmptyText
  /\ form["s1"].currentMeter[1] < form["s1"].previousMeter

\* C10: paid_amount_comment is append-only: each accepted record_payment
\* appends exactly one line and keeps the text that existed before as the
\* beginning of the new text; after n accepted payments the comment holds
\* n lines
C10_CommentAppendOnly ==
  /\ [](\A i \in BillIds : LineCount(bill[i].paid_amount_comment) = Len(payments[i]))
  /\ [][\A s \in Sessions :
          (ev'.op = "PayWrite" /\ ev'.res = "ok" /\ ev'.s = s) =>
            LET i == view[s].req.billId
                old == bill[i].paid_amount_comment
                new == bill'[i].paid_amount_comment
            IN /\ Len(new) >= Len(old)
               /\ SubSeq(new, 1, Len(old)) = old
               /\ LineCount(new) = LineCount(old) + 1]_vars

----------------------------------------------------------------------------
(* Properties of the occupancy ledger *)

\* C7: after any sequence of assign and vacate calls that respect their
\* preconditions, every room has at most one mapping with leaving_date =
\* null: no mapping exists at the start, and a vacate, or an assign whose
\* insert finds no active mapping in its room, leads from a state with at
\* most one active mapping per room to another such state
C7_AtMostOneActivePerRoom ==
  [][((\A r \in Rooms : Cardinality(ActiveMappings(r)) <= 1)
      /\ \A s \in Sessions :
           (ev'.op = "AssignInsert" /\ ev'.res = "ok" /\ ev'.s = s) =>
             ActiveMappings(occ[s].room_id) = {})
     => (\A r \in Rooms : Cardinality(ActiveMappings(r)) <= 1)']_vars

\* C7 witness: room 1 was assigned, vacated and assigned again, and holds
\* one closed and one active mapping
C7_Witness ==
  /\ ev.op = "AssignInsert" /\ ev.res = "ok"
  /\ Cardinality(ActiveMappings(1)) = 1
  /\ \E i \in 1..Len(tenant_room_mapping) :
       /\ tenant_room_mapping[i].room_id = 1
       /\ tenant_room_mapping[i].leaving_date # "null"

\* C8: assign(T, R) called while R has an active mapping raises 'Room
\* already occupied' (unless the call fails before its check), inserts no
\* mapping row and leaves the existing mappings unchanged
C8_OccupiedRoomRejected ==
  [][/\ (ev'.op = "addTenantToRoom" /\ ActiveMappings(ev'.arg) # {}) =>
          /\ ev'.res \in {"Room already occupied", "failed"}
          /\ occ' = occ
          /\ tenant_room_mapping' = tenant_room_mapping
     /\ \A s \in Sessions :
          (ev'.op = "AssignInsert" /\ ev'.s = s
           /\ ActiveMappings(occ[s].room_id) # {}) =>
            tenant_room_mapping' = tenant_room_mapping]_vars

----------------------------------------------------------------------------
(* Properties of the meter-reading chain and of bill capture *)

\* C11: for any two consecutive bills of the same room (ordered by
\* creation), the previous_month_meter_reading of the later bill equals the
\* current_month_meter_reading of the earlier one, whichever tenants the
\* bills belong to
C11_MeterChain ==
  \A i \in BillIds : \A j \in BillIds :
    (/\ i < j
     /\ bill[i].room_id = bill[j].room_id
     /\ \A k \in BillIds : (i < k /\ k < j) => bill[k].room_id # bill[i].room_id)
    => bill[j].previous_month_meter_reading = bill[i].current_month_meter_reading

\* bill capture of one session that also visits the Rooms tab: room 1 is
\* occupied by tenant 1 at the start and no bill exists
InitCapture ==
  /\ bill = <<>>
  /\ meter_reading = <<>>
  /\ tenant_room_mapping = InitOccupied
  /\ room = RoomRent
  /\ setting = InitSetting
  /\ nav = [s \in Sessions |-> [screen |-> "list", alert |-> "none"]]
  /\ view = [s \in Sessions |-> InitView]
  /\ form = [s \in Sessions |-> InitForm]
  /\ occ = [s \in Sessions |-> NoOcc]
  /\ roomForm = [s \in Sessions |-> NoRoomForm]
  /\ settingScreen = [s \in Sessions |-> NoSettingScreen]
  /\ tenant = InitTenant
  /\ storage = InitStorage
  /\ tenantForm = [s \in Sessions |-> NoTenantForm]
  /\ mrCall = [s \in Sessions |-> NoMrCall]
  /\ ev = Ev("init", "ok", "s1")
  /\ payments = <<>>
  /\ readingOf = <<>>

NextCapture ==
  \E s \in {"s1"} :
    \/ OpenFormCreate(s)
    \/ \E out \in {"fetch", "active", "ok"} : FormLoad(s, out)
    \/ \E pair \in Rooms \X Tenants : selectPair(s, pair)
    \/ \E r \in Rooms, ok \in BOOLEAN : selectPairDone(s, r, ok)
    \/ clearPair(s)
    \/ \E t \in MeterTexts : setCurrentMeter(s, t)
    \/ \E t \in AdHocTexts : setAdHocAmount(s, t)
    \/ save(s)
    \/ \E ok \in BOOLEAN : FormWriteBill(s, ok)
    \/ \E ok \in BOOLEAN : FormWriteReading(s, ok)
    \/ AlertOK(s)
    \/ FormBack(s)
    \/ TabToRooms(s)
    \/ \E m \in 1..MaxMappings, ok \in BOOLEAN : RoomVacate(s, m, ok)
    \/ TabToPayments(s)

SpecCapture == InitCapture /\ [][NextCapture]_vars

\* C12: every bill that is created targets a (room, tenant) pair that has
\* an active occupancy mapping at the moment the bill is inserted
C12_BillForOccupiedRoom ==
  [][Len(bill') > Len(bill) =>
       \E i \in ActiveMappings(bill'[Len(bill')].room_id) :
         tenant_room_mapping[i].tenant_id = bill'[Len(bill')].tenant_id]_vars

----------------------------------------------------------------------------
(* Owner isolation of the meter-reading service *)

MaxReadings == 2

\* MeterReadingService called by the session of an owner.  The arg of the
\* event is the id of the row the call read or wrote (0: none).
MrCreate(s, r, ok) ==
  /\ mrCall[s].pc = "idle"
  /\ Len(meter_reading) < MaxReadings
  /\ mrCall' = [mrCall EXCEPT ![s] =
                  [NoMrCall EXCEPT !.pc = IF ok THEN "first" ELSE "idle", !.roomId = r]]
  /\ ev' = IF ok THEN Ev("getUser", "ok", s)
           ELSE EvA("createMeterReading", "failed", s, 0)
  /\ UNCHANGED <<readingOf, dbVars, nav, view, form, occ, payments,
                 roomForm, settingScreen, tenant, storage, tenantForm>>

\* the first insert, with user_id, retried on any error
MrInsertWithUserAnyRetry(s, out) ==
  /\ mrCall[s].pc = "first"
  /\ meter_reading' =
       IF out \in {"ok", "no id"}
       THEN createMeterReading([roomId |-> mrCall[s].roomId, tenantId |-> 1, unit |-> 1,
                                userId |-> UserOf[s]])
       ELSE meter_reading
  /\ mrCall' = [mrCall EXCEPT
                  ![s].attempts = @ + 1,
                  ![s].inserted = IF out \in {"ok", "no id"} THEN @ + 1 ELSE @,
                  ![s].firstError = IF out = "ok" THEN "none" ELSE out,
                  ![s].pc = IF out \in {"ok", "no id"} THEN "idle" ELSE "retry"]
  /\ ev' = CASE out = "ok" -> EvA("createMeterReading", "ok", s, Len(meter_reading) + 1)
             [] out = "no id" -> EvA("createMeterReading", "failed", s, 0)
             [] OTHER -> Ev("insertWithUser", "retry", s)
  /\ UNCHANGED <<readingOf, bill, tenant_room_mapping, room, setting, nav, view, form,
                 occ, payments, roomForm, settingScreen, tenant, storage, tenantForm>>

\* createMeterReading, the first insert, with user_id: an error whose
\* message includes 'type numeric' or 'invalid input syntax' leads to the
\* retry, any other error is thrown, and so is a row returned without id
MrInsertWithUser(s, out) ==
  /\ mrCall[s].pc = "first"
  /\ meter_reading' =
       IF out \in {"ok", "no id"}
       THEN createMeterReading([roomId |-> mrCall[s].roomId, tenantId |-> 1, unit |-> 1,
                                userId |-> UserOf[s]])
       ELSE meter_reading
  /\ mrCall' = [mrCall EXCEPT
                  ![s].attempts = @ + 1,
                  ![s].inserted = IF out \in {"ok", "no id"} THEN @ + 1 ELSE @,
                  ![s].firstError = IF out = "ok" THEN "none" ELSE out,
                  ![s].pc = IF out \in {"type numeric", "invalid input syntax"}
                            THEN "retry" ELSE "idle"]
  /\ ev' = CASE out = "ok" -> EvA("createMeterReading", "ok", s, Len(meter_reading) + 1)
             [] out \in {"type numeric", "invalid input syntax"} ->
                  Ev("insertWithUser", "retry", s)
             [] OTHER -> EvA("createMeterReading", "failed", s, 0)
  /\ UNCHANGED <<readingOf, bill, tenant_room_mapping, room, setting, nav, view, form,
                 occ, payments, roomForm, settingScreen, tenant, storage, tenantForm>>

\* createMeterReading, the second insert, without user_id: its error is
\* thrown, and so is a row returned without id
MrInsertWithoutUser(s, out) ==
  /\ mrCall[s].pc = "retry"
  /\ meter_reading' =
       IF out \in {"ok", "no id"}
       THEN createMeterReading([roomId |-> mrCall[s].roomId, tenantId |-> 1, unit |-> 1,
                                userId |-> "null"])
       ELSE meter_reading
  /\ mrCall' = [mrCall EXCEPT
                  ![s].attempts = @ + 1,
                  ![s].inserted = IF out \in {"ok", "no id"} THEN @ + 1 ELSE @,
                  ![s].pc = "idle"]
  /\ ev' = IF out = "ok" THEN EvA("createMeterReading", "ok", s, Len(meter_reading) + 1)
           ELSE EvA("createMeterReading", "failed", s, 0)
  /\ UNCHANGED <<readingOf, bill, tenant_room_mapping, room, setting, nav, view, form,
                 occ, payments, roomForm, settingScreen, tenant, storage, tenantForm>>

MrFetchLatestForRoom(s, r) ==
  /\ ev' = EvA("fetchLatestMeterReadingForRoom", "ok", s,
               fetchLatestMeterReadingForRoom(r).id)
  /\ UNCHANGED <<readingOf, adminVars, dbVars, nav, view, form, occ, payments>>

MrUpdate(s, id, unit, ok) ==
  /\ id \in 1..Len(meter_reading)
  /\ meter_reading' = IF ok THEN updateMeterReading(id, unit) ELSE meter_reading
  /\ ev' = EvA("updateMeterReading", IF ok THEN "ok" ELSE "failed", s, IF ok THEN id ELSE 0)
  /\ UNCHANGED <<readingOf, adminVars, bill, tenant_room_mapping, room, setting, nav, view, form, occ, payments>>

NextOwners ==
  \E s \in {"s1", "s3"} :
    \/ \E r \in Rooms, ok \in BOOLEAN : MrCreate(s, r, ok)
    \/ \E out \in {"ok", "no id", "type numeric", "invalid input syntax", "other"} :
          MrInsertWithUser(s, out)
    \/ \E out \in {"ok", "no id", "error"} : MrInsertWithoutUser(s, out)
    \/ \E r \in Rooms : MrFetchLatestForRoom(s, r)
    \/ \E id \in 1..MaxReadings, unit \in 0..MaxMeter, ok \in BOOLEAN : MrUpdate(s, id, unit, ok)

SpecOwners == Init /\ [][NextOwners]_vars

\* C14: owner isolation: every read and every write issued by the services
\* is filtered by the id of the authenticated owner, so an operation run by
\* owner A never reads, updates or deletes a row that belongs to owner B
C14_OwnerIsolation ==
  [][(/\ ev'.op \in {"createMeterReading", "fetchLatestMeterReadingForRoom",
                     "updateMeterReading"}
      /\ ev'.arg # 0)
     => meter_reading'[ev'.arg].user_id = UserOf[ev'.s]]_vars

----------------------------------------------------------------------------
(* RoomFormScreen: saving a room *)

MaxInflight == 2
MaxRooms == 4

\* the Rooms tab opens the form to add a room or to edit room id; the form
\* is modelled with no tenant picked in it, so that save is saveRoom alone
OpenRoomForm(s, mode, id) ==
  /\ nav[s].screen = "rooms"
  /\ nav[s].alert = "none"
  /\ mode = "add" <=> id = 0
  /\ id \in {0} \cup (1..Len(room))
  /\ nav' = [nav EXCEPT ![s].screen = "roomForm"]
  /\ roomForm' = [roomForm EXCEPT ![s] =
                    [mode |-> mode, roomId |-> id,
                     rent |-> IF id = 0 THEN EmptyText ELSE DigitText(room[id].rent),
                     inflight |-> 0]]
  /\ ev' = Ev("input", "ok", s)
  /\ UNCHANGED <<readingOf, dbVars, view, form, occ, payments, settingScreen, tenant, storage, tenantForm, mrCall>>

setRent(s, t) ==
  /\ nav[s].screen = "roomForm"
  /\ nav[s].alert = "none"
  /\ roomForm' = [roomForm EXCEPT ![s].rent = t]
  /\ ev' = Ev("input", "ok", s)
  /\ UNCHANGED <<readingOf, dbVars, nav, view, form, occ, payments, settingScreen, tenant, storage, tenantForm, mrCall>>

\* a press of the save FAB: save() up to its await of saveRoom; validate
\* wants digits in the rent field.  The FAB
\* shows the spinner while saving but stays enabled, and save() does not
\* look at saving
roomSave(s) ==
  /\ nav[s].screen = "roomForm"
  /\ nav[s].alert = "none"
  /\ IF ~IsDigits(roomForm[s].rent)
     THEN /\ roomForm' = roomForm
          /\ ev' = Ev("roomSave", "rejected", s)
     ELSE /\ roomForm[s].inflight < MaxInflight
          /\ roomForm' = [roomForm EXCEPT ![s].inflight = @ + 1]
          /\ ev' = Ev("roomSave", "started", s)
  /\ UNCHANGED <<readingOf, dbVars, nav, view, form, occ, payments, settingScreen, tenant, storage, tenantForm, mrCall>>

\* saveRoom: insert of a new row when the payload has no id, update of the
\* row with that id otherwise
saveRoom(id, r) ==
  IF id = 0
  THEN Append(room, [rent |-> r])
  ELSE [room EXCEPT ![id].rent = r]

\* one started save settles: saveRoom, the 'Saved' alert, setSaving(false)
RoomWrite(s, ok) ==
  /\ roomForm[s].inflight > 0
  /\ roomForm[s].mode = "add" => Len(room) < MaxRooms
  /\ room' = IF ok
             THEN saveRoom(roomForm[s].roomId, NumberOf(roomForm[s].rent))
             ELSE room
  /\ roomForm' = [roomForm EXCEPT ![s].inflight = @ - 1]
  /\ nav' = IF ok THEN [nav EXCEPT ![s].alert = "Saved"] ELSE nav
  /\ ev' = EvA("saveRoom", IF ok THEN "ok" ELSE "failed", s,
               IF ok THEN (IF roomForm[s].roomId = 0 THEN Len(room) + 1
                           ELSE roomForm[s].roomId)
               ELSE 0)
  /\ UNCHANGED <<readingOf, bill, meter_reading, tenant_room_mapping, setting, view, form, occ, payments, settingScreen, tenant, storage, tenantForm, mrCall>>

\* OK of the 'Saved' alert: navigation.goBack
RoomAlertOK(s) ==
  /\ nav[s].screen = "roomForm"
  /\ nav[s].alert = "Saved"
  /\ nav' = [nav EXCEPT ![s] = [screen |-> "rooms", alert |-> "none"]]
  /\ ev' = Ev("input", "ok", s)
  /\ UNCHANGED <<readingOf, dbVars, view, form, occ, payments, roomForm, settingScreen, tenant, storage, tenantForm, mrCall>>

InitRooms ==
  /\ bill = <<>>
  /\ meter_reading = <<>>
  /\ tenant_room_mapping = <<>>
  /\ room = RoomRent
  /\ setting = InitSetting
  /\ nav = [s \in Sessions |-> [screen |-> "rooms", alert |-> "none"]]
  /\ view = [s \in Sessions |-> InitView]
  /\ form = [s \in Sessions |-> InitForm]
  /\ occ = [s \in Sessions |-> NoOcc]
  /\ roomForm = [s \in Sessions |-> NoRoomForm]
  /\ settingScreen = [s \in Sessions |-> NoSettingScreen]
  /\ tenant = InitTenant
  /\ storage = InitStorage
  /\ tenantForm = [s \in Sessions |-> NoTenantForm]
  /\ mrCall = [s \in Sessions |-> NoMrCall]
  /\ ev = Ev("init", "ok", "s1")
  /\ payments = <<>>
  /\ readingOf = <<>>

NextRooms ==
  \E s \in {"s1"} :
    \/ \E mode \in {"add", "edit"}, id \in 0..MaxRooms : OpenRoomForm(s, mode, id)
    \/ \E t \in MeterTexts : setRent(s, t)
    \/ roomSave(s)
    \/ \E ok \in BOOLEAN : RoomWrite(s, ok)
    \/ RoomAlertOK(s)

SpecRooms == InitRooms /\ [][NextRooms]_vars

\* C15: while a save is in flight, a second activation of the same control
\* from the same client issues no further backend write: one confirm
\* produces at most one write sequence
C15_NoSecondWriteInFlight ==
  [][\A s \in Sessions :
       roomForm[s].inflight > 0 => roomForm'[s].inflight <= roomForm[s].inflight]_vars

----------------------------------------------------------------------------
(* SettingScreen: the settings row of the owner *)

MaxStamp == 3

\* new Date().toISOString() of a write: later than every stored modified_at
NextStamp ==
  IF Len(setting) = 0 THEN 1
  ELSE 1 + (CHOOSE m \in {setting[i].modified_at : i \in 1..Len(setting)} :
              \A i \in 1..Len(setting) : setting[i].modified_at <= m)

\* the latest row of the user as fetchSettings selects it (0: no row)
latestSettingRow(userId) ==
  IF SettingsOf(userId) = {} THEN 0
  ELSE CHOOSE j \in SettingsOf(userId) :
         \A k \in SettingsOf(userId) : setting[k].modified_at <= setting[j].modified_at

ChargeText(v) == IF v = Null THEN EmptyText ELSE DigitText(v)
ChargeOf(t) == IF Len(t) = 0 THEN Null ELSE NumberOf(t)

\* the Settings tab gains focus: useFocusEffect starts fetchSettings
SettingsFocus(s) ==
  /\ nav[s].screen = "rooms"
  /\ nav[s].alert = "none"
  /\ nav' = [nav EXCEPT ![s].screen = "settings"]
  /\ settingScreen' = [settingScreen EXCEPT ![s].pc = "loading"]
  /\ ev' = Ev("input", "ok", s)
  /\ UNCHANGED <<readingOf, dbVars, view, form, occ, payments, roomForm, tenant, storage, tenantForm, mrCall>>

\* fetchSettings settles: a row found fills recordId and the fields, no row
\* leaves them, an error raises 'Load Failed' and leaves them
fetchSettings(s, ok) ==
  /\ nav[s].screen = "settings"
  /\ settingScreen[s].pc = "loading"
  /\ LET i == latestSettingRow(UserOf[s])
     IN IF ok
        THEN /\ settingScreen' =
                  IF i = 0
                  THEN [settingScreen EXCEPT ![s].pc = "idle"]
                  ELSE [settingScreen EXCEPT
                          ![s].pc = "idle",
                          ![s].recordId = setting[i].id,
                          ![s].propertyName = <<"P">>,
                          ![s].water = ChargeText(setting[i].water),
                          ![s].electricity = ChargeText(setting[i].electricity_unit)]
             /\ nav' = nav
             /\ ev' = EvA("fetchSettings", "ok", s, i)
        ELSE /\ settingScreen' = [settingScreen EXCEPT ![s].pc = "idle"]
             /\ nav' = [nav EXCEPT ![s].alert = "Load Failed"]
             /\ ev' = Ev("fetchSettings", "failed", s)
  /\ UNCHANGED <<readingOf, dbVars, view, form, occ, payments, roomForm, tenant, storage, tenantForm, mrCall>>

SettingIdle(s) ==
  /\ nav[s].screen = "settings"
  /\ nav[s].alert = "none"
  /\ settingScreen[s].pc = "idle"

setPropertyName(s, t) ==
  /\ SettingIdle(s)
  /\ settingScreen' = [settingScreen EXCEPT ![s].propertyName = t]
  /\ ev' = Ev("input", "ok", s)
  /\ UNCHANGED <<readingOf, dbVars, nav, view, form, occ, payments, roomForm, tenant, storage, tenantForm, mrCall>>

setWater(s, t) ==
  /\ SettingIdle(s)
  /\ settingScreen' = [settingScreen EXCEPT ![s].water = t]
  /\ ev' = Ev("input", "ok", s)
  /\ UNCHANGED <<readingOf, dbVars, nav, view, form, occ, payments, roomForm, tenant, storage, tenantForm, mrCall>>

setElectricity(s, t) ==
  /\ SettingIdle(s)
  /\ settingScreen' = [settingScreen EXCEPT ![s].electricity = t]
  /\ ev' = Ev("input", "ok", s)
  /\ UNCHANGED <<readingOf, dbVars, nav, view, form, occ, payments, roomForm, tenant, storage, tenantForm, mrCall>>

\* handleSave up to its first await; validate wants a property name
handleSave(s) ==
  /\ SettingIdle(s)
  /\ IF Len(settingScreen[s].propertyName) = 0
     THEN /\ settingScreen' = settingScreen
          /\ ev' = Ev("handleSave", "rejected", s)
     ELSE /\ settingScreen' =
               [settingScreen EXCEPT
                  ![s].pc = "saving",
                  ![s].req = [recordId |-> settingScreen[s].recordId,
                              water |-> ChargeOf(settingScreen[s].water),
                              electricity_unit |-> ChargeOf(settingScreen[s].electricity)]]
          /\ ev' = Ev("handleSave", "started", s)
  /\ UNCHANGED <<readingOf, dbVars, nav, view, form, occ, payments, roomForm, tenant, storage, tenantForm, mrCall>>

\* handleSave after getUser: update of the row recordId when there is one,
\* insert of a new row otherwise; then the alert and setRecordId
SettingWrite(s, ok) ==
  /\ settingScreen[s].pc = "saving"
  /\ NextStamp <= MaxStamp
  /\ LET q == settingScreen[s].req
         u == UserOf[s]
         hit == {i \in 1..Len(setting) : setting[i].id = q.recordId /\ setting[i].user_id = u}
         newId == Len(setting) + 1
     IN IF ~ok
        THEN /\ setting' = setting
             /\ settingScreen' = [settingScreen EXCEPT ![s].pc = "idle"]
             /\ nav' = [nav EXCEPT ![s].alert = "Save Failed"]
             /\ ev' = Ev("settingSave", "failed", s)
        ELSE IF q.recordId # 0
        THEN /\ setting' = [i \in 1..Len(setting) |->
                              IF i \in hit
                              THEN [setting[i] EXCEPT !.water = q.water,
                                                      !.electricity_unit = q.electricity_unit,
                                                      !.modified_at = NextStamp]
                              ELSE setting[i]]
             /\ settingScreen' = [settingScreen EXCEPT ![s].pc = "idle"]
             /\ nav' = [nav EXCEPT ![s].alert = "Saved"]
             /\ ev' = EvA("settingSave", "ok", s, q.recordId)
        ELSE /\ setting' = Append(setting,
                             [id |-> newId, user_id |-> u, water |-> q.water,
                              electricity_unit |-> q.electricity_unit,
                              modified_at |-> NextStamp])
             /\ settingScreen' = [settingScreen EXCEPT ![s].pc = "idle",
                                                        ![s].recordId = newId]
             /\ nav' = [nav EXCEPT ![s].alert = "Saved"]
             /\ ev' = EvA("settingSave", "ok", s, newId)
  /\ UNCHANGED <<readingOf, bill, meter_reading, tenant_room_mapping, room, view, form, occ, payments, roomForm, tenant, storage, tenantForm, mrCall>>

\* an alert of the settings screen is dismissed
SettingAlertOK(s) ==
  /\ nav[s].screen = "settings"
  /\ nav[s].alert # "none"
  /\ nav' = [nav EXCEPT ![s].alert = "none"]
  /\ ev' = Ev("input", "ok", s)
  /\ UNCHANGED <<readingOf, dbVars, view, form, occ, payments, adminVars>>

\* another tab is opened; the settings screen stays mounted
SettingsBlur(s) ==
  /\ SettingIdle(s)
  /\ nav' = [nav EXCEPT ![s].screen = "rooms"]
  /\ ev' = Ev("input", "ok", s)
  /\ UNCHANGED <<readingOf, dbVars, view, form, occ, payments, adminVars>>

\* the owner of s1 has no settings row yet or has one
InitSettings ==
  /\ bill = <<>>
  /\ meter_reading = <<>>
  /\ tenant_room_mapping = <<>>
  /\ room = RoomRent
  /\ setting \in {<<>>, InitSetting}
  /\ nav = [s \in Sessions |-> [screen |-> "rooms", alert |-> "none"]]
  /\ view = [s \in Sessions |-> InitView]
  /\ form = [s \in Sessions |-> InitForm]
  /\ occ = [s \in Sessions |-> NoOcc]
  /\ roomForm = [s \in Sessions |-> NoRoomForm]
  /\ settingScreen = [s \in Sessions |-> NoSettingScreen]
  /\ tenant = InitTenant
  /\ storage = InitStorage
  /\ tenantForm = [s \in Sessions |-> NoTenantForm]
  /\ mrCall = [s \in Sessions |-> NoMrCall]
  /\ ev = Ev("init", "ok", "s1")
  /\ payments = <<>>
  /\ readingOf = <<>>

NextSettings ==
  \E s \in {"s1"} :
    \/ SettingsFocus(s)
    \/ \E ok \in BOOLEAN : fetchSettings(s, ok)
    \/ \E t \in {EmptyText, <<"P">>} : setPropertyName(s, t)
    \/ \E t \in {EmptyText, DigitText(1), DigitText(2)} : setWater(s, t)
    \/ \E t \in {EmptyText, DigitText(1), DigitText(2)} : setElectricity(s, t)
    \/ handleSave(s)
    \/ \E ok \in BOOLEAN : SettingWrite(s, ok)
    \/ SettingAlertOK(s)
    \/ SettingsBlur(s)

SpecSettings == InitSettings /\ [][NextSettings]_vars

\* C16: settings are a single row per owner: the first save inserts a row
\* and every later save updates that same row, so the setting table holds
\* at most one row for the owner, and fetchLatestSetting returns the values
\* of the most recent save
C16_SingleSettingRow ==
  /\ [](\A u \in {"A", "B"} : Cardinality(SettingsOf(u)) <= 1)
  /\ [][\A s \in Sessions :
          (ev'.op = "settingSave" /\ ev'.res = "ok" /\ ev'.s = s) =>
            LET q == settingScreen[s].req
            IN fetchLatestSetting(UserOf[s])' =
                 [water |-> IF q.water = Null THEN 0 ELSE q.water,
                  electricity_unit |-> IF q.electricity_unit = Null THEN 0
                                       ELSE q.electricity_unit]]_vars

----------------------------------------------------------------------------
(* TenantFormScreen and saveTenant: editing a tenant *)

\* the Tenant tab opens the form to edit tenant id: loadTenant starts
OpenTenantForm(s, id) ==
  /\ nav[s].screen = "rooms"
  /\ nav[s].alert = "none"
  /\ id \in 1..Len(tenant)
  /\ nav' = [nav EXCEPT ![s].screen = "tenantForm"]
  /\ tenantForm' = [tenantForm EXCEPT ![s] = [NoTenantForm EXCEPT !.pc = "loading",
                                                               !.tenantId = id]]
  /\ ev' = Ev("input", "ok", s)
  /\ UNCHANGED <<readingOf, dbVars, view, form, occ, payments, roomForm, settingScreen, tenant, storage, mrCall>>

\* loadTenant settles: setFromTenant, or 'Load Failed'
loadTenant(s, ok) ==
  /\ nav[s].screen = "tenantForm"
  /\ tenantForm[s].pc = "loading"
  /\ LET t == tenant[tenantForm[s].tenantId]
     IN IF ok /\ t.user_id = UserOf[s]
        THEN /\ tenantForm' = [tenantForm EXCEPT ![s].pc = "idle", ![s].name = t.name,
                                                 ![s].urls = t.docs, ![s].files = {}]
             /\ nav' = nav
             /\ ev' = Ev("loadTenant", "ok", s)
        ELSE /\ tenantForm' = [tenantForm EXCEPT ![s].pc = "idle"]
             /\ nav' = [nav EXCEPT ![s].alert = "Load Failed"]
             /\ ev' = Ev("loadTenant", "failed", s)
  /\ UNCHANGED <<readingOf, dbVars, view, form, occ, payments, roomForm, settingScreen, tenant, storage, mrCall>>

TenantIdle(s) ==
  /\ nav[s].screen = "tenantForm"
  /\ nav[s].alert = "none"
  /\ tenantForm[s].pc = "idle"

setName(s, t) ==
  /\ TenantIdle(s)
  /\ tenantForm' = [tenantForm EXCEPT ![s].name = t]
  /\ ev' = Ev("input", "ok", s)
  /\ UNCHANGED <<readingOf, dbVars, nav, view, form, occ, payments, roomForm, settingScreen, tenant, storage, mrCall>>

\* pickPhoto / pickFile: the document key gets a new file and no url
pickFile(s, key) ==
  /\ TenantIdle(s)
  /\ tenantForm' = [tenantForm EXCEPT ![s].files = @ \cup {key}, ![s].urls = @ \ {key}]
  /\ ev' = Ev("input", "ok", s)
  /\ UNCHANGED <<readingOf, dbVars, nav, view, form, occ, payments, roomForm, settingScreen, tenant, storage, mrCall>>

\* handleSave and saveTenant up to the first upload: validate wants a name;
\* getCurrentUserId runs
\* before the try block, its error is raised with nothing uploaded
tenantHandleSave(s, authOk) ==
  /\ TenantIdle(s)
  /\ IF Len(tenantForm[s].name) = 0
     THEN /\ tenantForm' = tenantForm
          /\ nav' = nav
          /\ ev' = Ev("tenantHandleSave", "rejected", s)
     ELSE IF ~authOk
     THEN /\ tenantForm' = [tenantForm EXCEPT ![s].todo = {}, ![s].uploadedPaths = {}]
          /\ nav' = [nav EXCEPT ![s].alert = "Save Failed"]
          /\ ev' = EvA("saveTenant", "failed", s, tenantForm[s].tenantId)
     ELSE /\ tenantForm' = [tenantForm EXCEPT
                              ![s].pc = IF tenantForm[s].files = {} THEN "update" ELSE "upload",
                              ![s].todo = tenantForm[s].files,
                              ![s].uploadedPaths = {}]
          /\ nav' = nav
          /\ ev' = Ev("tenantHandleSave", "started", s)
  /\ UNCHANGED <<readingOf, dbVars, view, form, occ, payments, roomForm, settingScreen, tenant, storage, mrCall>>

\* the next document of the payload in the order of saveTenant
nextKey(todo) ==
  DocKeys[CHOOSE i \in 1..Len(DocKeys) :
            /\ DocKeys[i] \in todo
            /\ \A j \in 1..(i - 1) : DocKeys[j] \notin todo]

\* what a failed step leads to: the catch block removes when something was
\* uploaded, and raises the error at once otherwise
afterFailure(s, f) ==
  IF f.uploadedPaths # {}
  THEN /\ tenantForm' = [tenantForm EXCEPT ![s] = [f EXCEPT !.pc = "rollback"]]
       /\ nav' = nav
       /\ ev' = Ev("saveTenant", "caught", s)
  ELSE /\ tenantForm' = [tenantForm EXCEPT ![s] = [f EXCEPT !.pc = "idle"]]
       /\ nav' = [nav EXCEPT ![s].alert = "Save Failed"]
       /\ ev' = EvA("saveTenant", "failed", s, f.tenantId)

\* uploadFile of the next document: the upload overwrites the fixed path
\* userId/tenantId/key
TenantUpload(s, ok) ==
  /\ tenantForm[s].pc = "upload"
  /\ LET f == tenantForm[s]
         k == nextKey(f.todo)
         path == <<UserOf[s], f.tenantId, k>>
         rest == f.todo \ {k}
     IN IF ok
        THEN /\ storage' = storage \cup {path}
             /\ tenantForm' = [tenantForm EXCEPT
                                 ![s].todo = rest,
                                 ![s].uploadedPaths = @ \cup {path},
                                 ![s].pc = IF rest = {} THEN "update" ELSE "upload"]
             /\ nav' = nav
             /\ ev' = Ev("uploadFile", "ok", s)
        ELSE /\ storage' = storage
             /\ afterFailure(s, f)
  /\ UNCHANGED <<readingOf, dbVars, view, form, occ, payments, roomForm, settingScreen, tenant, mrCall>>

\* the update of the tenant row, filtered by id and user_id
TenantUpdate(s, ok) ==
  /\ tenantForm[s].pc = "update"
  /\ IF ok
     THEN /\ tenant' = [i \in 1..Len(tenant) |->
                          IF /\ tenant[i].id = tenantForm[s].tenantId
                             /\ tenant[i].user_id = UserOf[s]
                          THEN [tenant[i] EXCEPT !.name = tenantForm[s].name,
                                                 !.docs = tenantForm[s].urls
                                                          \cup tenantForm[s].files]
                          ELSE tenant[i]]
          /\ tenantForm' = [tenantForm EXCEPT ![s].pc = "idle"]
          /\ nav' = [nav EXCEPT ![s].alert = "Success"]
          /\ ev' = EvA("saveTenant", "ok", s, tenantForm[s].tenantId)
     ELSE /\ tenant' = tenant
          /\ afterFailure(s, tenantForm[s])
  /\ UNCHANGED <<readingOf, dbVars, view, form, occ, payments, roomForm, settingScreen, storage, mrCall>>

\* the catch block with the remove answering without error
rollbackRemoveNone(paths) == storage

\* the catch block: storage.remove(uploadedPaths)
rollbackRemove(paths) == storage \ paths

\* the remove call of the catch block settles and the error is raised
\* again; the answer of remove is not looked at
TenantRollback(s, ok) ==
  /\ tenantForm[s].pc = "rollback"
  /\ storage' = IF ok THEN rollbackRemove(tenantForm[s].uploadedPaths) ELSE storage
  /\ tenantForm' = [tenantForm EXCEPT ![s].pc = "idle"]
  /\ nav' = [nav EXCEPT ![s].alert = "Save Failed"]
  /\ ev' = EvA("saveTenant", IF ok THEN "rolled back" ELSE "rollback failed", s,
               tenantForm[s].tenantId)
  /\ UNCHANGED <<readingOf, dbVars, view, form, occ, payments, roomForm, settingScreen, tenant, mrCall>>

\* 'Success' goes back; the other alerts are dismissed
TenantAlertOK(s) ==
  /\ nav[s].screen = "tenantForm"
  /\ nav[s].alert # "none"
  /\ nav' = [nav EXCEPT ![s] = [screen |-> IF nav[s].alert = "Success" THEN "rooms"
                                           ELSE "tenantForm",
                                alert |-> "none"]]
  /\ ev' = Ev("input", "ok", s)
  /\ UNCHANGED <<readingOf, dbVars, view, form, occ, payments, adminVars>>

NextTenants ==
  \E s \in {"s1"} :
    \/ \E id \in Tenants : OpenTenantForm(s, id)
    \/ \E ok \in BOOLEAN : loadTenant(s, ok)
    \/ \E t \in {EmptyText, <<"n1">>, <<"n2">>} : setName(s, t)
    \/ \E i \in 1..Len(DocKeys) : pickFile(s, DocKeys[i])
    \/ \E authOk \in BOOLEAN : tenantHandleSave(s, authOk)
    \/ \E ok \in BOOLEAN : TenantUpload(s, ok)
    \/ \E ok \in BOOLEAN : TenantUpdate(s, ok)
    \/ \E ok \in BOOLEAN : TenantRollback(s, ok)
    \/ TenantAlertOK(s)

SpecTenants == InitRooms /\ [][NextTenants]_vars

----------------------------------------------------------------------------
(* The meter-reading log *)

\* C18 as stated: the log is append-only, one reading per billing cycle:
\* each successful capture adds exactly one row, and no operation changes
\* the unit of, or removes, a stored row
C18_AppendOnly ==
  [][/\ Len(meter_reading') >= Len(meter_reading)
     /\ (ev'.op = "FormWriteReading" /\ ev'.res = "ok")
          => /\ Len(meter_reading') = Len(meter_reading) + 1
             /\ meter_reading'[Len(meter_reading')].unit =
                  bill[Len(bill)].current_month_meter_reading
     /\ Len(meter_reading') # Len(meter_reading)
          => ev'.op = "FormWriteReading" /\ ev'.res = "ok"
     /\ \A i \in 1..Len(meter_reading) : meter_reading'[i] = meter_reading[i]]_vars

\* C18 amended: no operation removes a stored row or changes its id, room or
\* tenant, and each successful capture adds exactly one row; the unit of a
\* stored row changes only in the meter sync of a bill edit, which writes
\* the edited current reading into the latest reading of the room
C18_AppendOnlyButSync ==
  [][/\ Len(meter_reading') >= Len(meter_reading)
     /\ (ev'.op = "FormWriteReading" /\ ev'.res = "ok")
          => /\ Len(meter_reading') = Len(meter_reading) + 1
             /\ meter_reading'[Len(meter_reading')].unit =
                  bill[Len(bill)].current_month_meter_reading
     /\ Len(meter_reading') # Len(meter_reading)
          => ev'.op = "FormWriteReading" /\ ev'.res = "ok"
     /\ \A i \in 1..Len(meter_reading) :
          /\ meter_reading'[i].id = meter_reading[i].id
          /\ meter_reading'[i].room_id = meter_reading[i].room_id
          /\ meter_reading'[i].tenant_id = meter_reading[i].tenant_id
          /\ meter_reading'[i].unit # meter_reading[i].unit
               => /\ ev'.op = "FormSync" /\ ev'.res = "ok"
                  /\ LET q == form[ev'.s].req
                     IN /\ i = fetchLatestMeterReadingForRoom(q.roomId).id
                        /\ meter_reading'[i].unit = q.currentMeter]_vars

C18_Witness ==
  /\ ev.op = "FormSync" /\ ev.res = "ok"
  /\ Len(meter_reading) = 2
  /\ meter_reading[2].unit # meter_reading[1].unit
  /\ bill[2].current_month_meter_reading = meter_reading[2].unit

----------------------------------------------------------------------------
(* The meter sync of a bill edit *)

\* C19: when the edited bill is the most recent bill of its room, the
\* meter-reading row that was created together with that bill is set to the
\* new current reading; when it is not the most recent bill of its room, no
\* meter-reading row is changed.  Stated for the edits whose sync calls all
\* succeed.
C19_SyncOwnReading ==
  [][\A s \in Sessions :
       (ev'.op = "FormSync" /\ ev'.res = "ok" /\ ev'.s = s) =>
         LET q == form[s].req
             b == q.billId
         IN IF fetchLatestBillForRoom(bill[b].room_id).id = b
            THEN /\ readingOf[b] # 0
                 /\ meter_reading'[readingOf[b]].unit = q.currentMeter
                 /\ \A i \in 1..Len(meter_reading) :
                      i # readingOf[b] => meter_reading'[i] = meter_reading[i]
            ELSE meter_reading' = meter_reading]_vars

----------------------------------------------------------------------------
(* The frame of a bill edit *)

----------------------------------------------------------------------------
(* The frame of a recorded payment *)

\* C21: record_payment writes only paid_amount, status and
\* paid_amount_comment of the existing bill row: it creates no row in any
\* table and leaves every other bill field, every other bill, and all meter
\* readings and mappings unchanged
C21_PaymentFrame ==
  [][\A s \in Sessions :
       (ev'.op = "PayWrite" /\ ev'.res = "ok" /\ ev'.s = s) =>
         LET id == view[s].billId
         IN /\ id \in BillIds
            /\ Len(bill') = Len(bill)
            /\ bill' = [bill EXCEPT ![id] =
                          [@ EXCEPT !.paid_amount = bill'[id].paid_amount,
                                    !.status = bill'[id].status,
                                    !.paid_amount_comment = bill'[id].paid_amount_comment]]
            /\ UNCHANGED <<meter_reading, tenant_room_mapping, room, setting,
                           tenant, storage, mrCall>>]_vars

C21_Witness ==
  /\ ev.op = "PayWrite" /\ ev.res = "ok"
  /\ Len(bill) = 2
  /\ view["s1"].billId = 2
  /\ bill[2].paid_amount > 0
  /\ bill[2].status = "PARTIAL"
  /\ Len(bill[2].paid_amount_comment) > 0

----------------------------------------------------------------------------
(* The capture sequence: bill insert, then meter-reading append *)

\* C22: partial commit on capture: if the meter-reading append fails after
\* the bill insert has succeeded, the bill row stays persisted, no meter
\* reading exists for it, nothing is rolled back, and the failure is
\* reported as 'Save Failed'
C22_PartialCommit ==
  [][\A s \in Sessions :
       (ev'.op = "FormWriteReading" /\ ev'.res = "failed" /\ ev'.s = s) =>
         LET q == form[s].req
         IN /\ Len(bill) > 0
            /\ bill' = bill
            /\ bill[Len(bill)].room_id = q.roomId
            /\ bill[Len(bill)].current_month_meter_reading = q.currentMeter
            /\ meter_reading' = meter_reading
            /\ readingOf'[Len(bill)] = 0
            /\ nav'[s].alert = "Save Failed"]_vars

C22_Witness ==
  /\ ev.op = "FormWriteReading" /\ ev.res = "failed"
  /\ Len(bill) = 2
  /\ readingOf[2] = 0
  /\ Len(meter_reading) = 1
  /\ nav["s1"].alert = "Save Failed"

----------------------------------------------------------------------------
(* Two sessions of one owner assigning and vacating, every lookup answering *)

NextRace ==
  \E s \in {"s1", "s2"} :
    \/ \E t \in Tenants, r \in Rooms : addTenantToRoom(s, t, r, "ok")
    \/ \E ok \in BOOLEAN : AssignInsert(s, ok)
    \/ \E m \in 1..MaxMappings, ok \in BOOLEAN : vacateRoom(s, m, ok)

SpecRace == Init /\ [][NextRace]_vars

\* C23: check-then-act race on assign: with two sessions of the same owner
\* calling assign on the same vacant room, both may pass the check before
\* either inserts; the insert does not look at the room again, so both
\* calls succeed and the room has two mappings with leaving_date = null.
\* A room gets a second active mapping in no other way.
C23_CheckThenActRace ==
  [][\A s \in Sessions :
       (ev'.op = "AssignInsert" /\ ev'.s = s) =>
         /\ ev'.res = "ok" =>
              /\ Len(tenant_room_mapping') = Len(tenant_room_mapping) + 1
              /\ tenant_room_mapping'[Len(tenant_room_mapping')].room_id = occ[s].room_id
              /\ tenant_room_mapping'[Len(tenant_room_mapping')].leaving_date = "null"
         /\ \A r \in Rooms :
              (Cardinality(ActiveMappings(r)) <= 1 /\ Cardinality(ActiveMappings(r)') > 1)
                => /\ r = occ[s].room_id
                   /\ ActiveMappings(r) # {}
                   /\ UserOf[s] = "A"]_vars

C23_Witness ==
  /\ ev.op = "AssignInsert" /\ ev.res = "ok"
  /\ Cardinality(ActiveMappings(1)) = 2
  /\ Len(tenant_room_mapping) = 2
  /\ occ["s1"].pc = "idle" /\ occ["s2"].pc = "idle"

----------------------------------------------------------------------------
(* The retry of createMeterReading *)

\* C24: createMeterReading first attempts the insert with user_id; it
\* retries exactly once, without user_id, only when the message of the first
\* error contains 'type numeric' or 'invalid input syntax'; any other first
\* error, and any error of the retry, is raised; it never makes more than
\* two insert attempts and a successful call has inserted exactly one row
C24_RetryOnce ==
  /\ [](\A s \in Sessions :
          /\ mrCall[s].attempts <= 2
          /\ mrCall[s].pc = "first" => mrCall[s].attempts = 0
          /\ mrCall[s].pc = "retry" =>
               /\ mrCall[s].attempts = 1
               /\ mrCall[s].inserted = 0
               /\ mrCall[s].firstError \in {"type numeric", "invalid input syntax"}
          /\ mrCall[s].attempts = 2 =>
               mrCall[s].firstError \in {"type numeric", "invalid input syntax"})
  /\ [][\A s \in Sessions :
          /\ (mrCall[s].pc = "first" /\ mrCall'[s].pc = "idle"
              /\ mrCall[s].firstError # mrCall'[s].firstError)
               => ev'.op = "createMeterReading" /\ ev'.res = "failed"
          /\ (mrCall[s].pc = "retry" /\ mrCall'[s].pc = "idle" /\ mrCall'[s].inserted = 0)
               => ev'.op = "createMeterReading" /\ ev'.res = "failed"
          /\ (ev'.op = "createMeterReading" /\ ev'.res = "ok" /\ ev'.s = s)
               => /\ mrCall'[s].inserted = 1
                  /\ Len(meter_reading') = Len(meter_reading) + 1
                  /\ meter_reading'[ev'.arg].user_id =
                       IF mrCall'[s].attempts = 1 THEN UserOf[s] ELSE "null"]_vars

C24_Witness ==
  /\ ev.op = "createMeterReading" /\ ev.res = "ok"
  /\ mrCall[ev.s].attempts = 2
  /\ mrCall[ev.s].inserted = 1
  /\ mrCall[ev.s].firstError = "type numeric"
  /\ meter_reading[ev.arg].user_id = "null"

----------------------------------------------------------------------------
(* Two sessions of one owner on PaymentViewScreen *)

\* a bill of room 1 as createBill stored it, nothing paid yet
UnpaidBill ==
  [PaidBill EXCEPT !.paid_amount = 0, !.paid_amount_comment = <<>>,
                   !.status = "UNPAID"]

InitPay ==
  /\ bill = <<UnpaidBill>>
  /\ payments = << <<>> >>
  /\ readingOf = <<1>>
  /\ meter_reading = <<[id |-> 1, room_id |-> 1, tenant_id |-> 1, unit |-> 1,
                        user_id |-> "A"]>>
  /\ tenant_room_mapping = InitOccupied
  /\ room = RoomRent
  /\ setting = InitSetting
  /\ nav = [s \in Sessions |-> [screen |-> "list", alert |-> "none"]]
  /\ view = [s \in Sessions |-> InitView]
  /\ form = [s \in Sessions |-> InitForm]
  /\ occ = [s \in Sessions |-> NoOcc]
  /\ roomForm = [s \in Sessions |-> NoRoomForm]
  /\ settingScreen = [s \in Sessions |-> NoSettingScreen]
  /\ tenant = InitTenant
  /\ storage = InitStorage
  /\ tenantForm = [s \in Sessions |-> NoTenantForm]
  /\ mrCall = [s \in Sessions |-> NoMrCall]
  /\ ev = Ev("init", "ok", "s1")

\* the two sessions of owner "A" open the bill, load it, type an amount and
\* save, each at its own pace
NextPay ==
  \E s \in {"s1", "s2"} :
    \/ \E b \in 1..MaxBills : OpenView(s, b)
    \/ \E ok \in BOOLEAN : ViewLoad(s, ok)
    \/ AlertOK(s)
    \/ openPaymentDialog(s)
    \/ \E t \in AmountTexts : setPaymentAmount(s, t)
    \/ savePayment(s)
    \/ \E ok \in BOOLEAN : PayWrite(s, ok)
    \/ ViewBack(s)

SpecPay == InitPay /\ [][NextPay]_vars

\* C25: in every reachable state, also when two sessions of the same owner
\* record payments on the same bill from independently loaded copies of it,
\* the persisted paid_amount equals the sum of the amounts of all accepted
\* record_payment calls on that bill
C25_PaidIsSumOfPayments ==
  LET RECURSIVE SumOf(_)
      SumOf(q) == IF q = <<>> THEN 0 ELSE Head(q) + SumOf(Tail(q))
  IN \A i \in BillIds : bill[i].paid_amount = SumOf(payments[i])

----------------------------------------------------------------------------
(* The check of addTenantToRoom *)

\* C26: addTenantToRoom inserts a mapping only when the room has zero
\* active mappings at the time of its check: a call whose lookup of the
\* active mapping ended in an error (also the error of finding more than one
\* active row) does not go on to the insert
C26_InsertOnlyAfterEmptyLookup ==
  [][\A s \in Sessions :
       (ev'.op = "addTenantToRoom" /\ ev'.s = s /\ occ'[s].pc = "insert") =>
         /\ ev'.res # "lookup error"
         /\ ActiveMappings(ev'.arg) = {}]_vars

----------------------------------------------------------------------------
(* The order of the capture sequence *)

\* C27: the capture sequence never leaves a meter reading without its bill:
\* the meter-reading row is appended only after the bill insert has
\* succeeded, and a failed bill insert writes neither row
C27_ReadingAfterBill ==
  /\ [](\A m \in 1..Len(meter_reading) : \E i \in BillIds : readingOf[i] = m)
  /\ [][\A s \in Sessions :
          /\ (ev'.s = s /\ Len(meter_reading') > Len(meter_reading)) =>
               LET q == form[s].req
                   mr == meter_reading'[Len(meter_reading')]
               IN /\ form[s].pc = "reading"
                  /\ bill' = bill
                  /\ Len(bill) > 0
                  /\ readingOf[Len(bill)] = 0
                  /\ readingOf'[Len(bill)] = mr.id
                  /\ bill[Len(bill)].room_id = mr.room_id
                  /\ bill[Len(bill)].current_month_meter_reading = mr.unit
                  /\ q.roomId = mr.room_id
          /\ (ev'.op = "FormWriteBill" /\ ev'.res = "failed" /\ ev'.s = s) =>
               /\ bill' = bill
               /\ meter_reading' = meter_reading
               /\ form'[s].pc = "idle"
               /\ nav'[s].alert = "Save Failed"]_vars

C27_Witness ==
  /\ ev.op = "FormWriteReading" /\ ev.res = "ok"
  /\ Len(bill) = 2 /\ Len(meter_reading) = 2
  /\ readingOf[2] = 2
  /\ meter_reading[2].unit = bill[2].current_month_meter_reading

----------------------------------------------------------------------------
(* Closing a mapping *)

\* C28: closing a mapping is one-way and only vacate does it: once the
\* leaving_date of a mapping is non-null it never becomes null again, and no
\* operation other than vacate (not assign, not updateJoiningDate) changes
\* the leaving_date of any mapping
C28_OnlyVacateCloses ==
  [][/\ Len(tenant_room_mapping') >= Len(tenant_room_mapping)
     /\ \A i \in 1..Len(tenant_room_mapping) :
          /\ tenant_room_mapping[i].leaving_date # "null"
               => tenant_room_mapping'[i].leaving_date # "null"
          /\ tenant_room_mapping'[i].leaving_date # tenant_room_mapping[i].leaving_date
               => /\ ev'.op = "vacateRoom" /\ ev'.res = "ok"
                  /\ tenant_room_mapping'[i].leaving_date # "null"
          /\ ev'.op \in {"addTenantToRoom", "AssignInsert", "updateJoiningDate"}
               => tenant_room_mapping'[i].leaving_date = tenant_room_mapping[i].leaving_date]_vars

\* C28 witness: the joining date of a closed mapping was rewritten and the
\* mapping is still closed, next to a later mapping of the same room
C28_Witness ==
  /\ ev.op = "updateJoiningDate" /\ ev.res = "ok"
  /\ Len(tenant_room_mapping) = 2
  /\ tenant_room_mapping[1].leaving_date # "null"
  /\ tenant_room_mapping[1].joining_date = "d2"
  /\ tenant_room_mapping[2].room_id = tenant_room_mapping[1].room_id
  /\ tenant_room_mapping[2].leaving_date = "null"

----------------------------------------------------------------------------
(* One room per tenant *)

\* C29: after any sequence of assign and vacate calls, a tenant has at most
\* one active occupancy mapping (leaving_date = null) across all rooms: no
\* tenant occupies two rooms at the same time
C29_OneActiveRoomPerTenant ==
  \A t \in Tenants :
    Cardinality({i \in 1..Len(tenant_room_mapping) :
                   /\ tenant_room_mapping[i].tenant_id = t
                   /\ tenant_room_mapping[i].leaving_date = "null"}) <= 1

----------------------------------------------------------------------------
(* The documents of a tenant after a rolled-back edit *)

\* C30: after a tenant edit that fails and is rolled back, every document
\* URL stored on the (unchanged) tenant record still refers to a blob that
\* exists in storage: rolling back a replacement upload does not remove the
\* blob the record points to
C30_RollbackKeepsStoredDocs ==
  [][\A s \in Sessions :
       (/\ ev'.op = "saveTenant" /\ ev'.s = s
        /\ ev'.res \in {"failed", "rolled back", "rollback failed"}
        /\ \A i \in 1..Len(tenant) : \A k \in tenant[i].docs :
             <<tenant[i].user_id, tenant[i].id, k>> \in storage)
       => /\ tenant' = tenant
          /\ \A i \in 1..Len(tenant') : \A k \in tenant'[i].docs :
               <<tenant'[i].user_id, tenant'[i].id, k>> \in storage']_vars

====
